---- MODULE Spec2Model ----
(***************************************************************************)
(* Model of the near-sets token-set contract (token-set/src) : a basket    *)
(* engine that wraps proportional amounts of underlying tokens into one    *)
(* derivative fungible token, with an owner fee and a platform fee; and of  *)
(* the deployer contract (deployer-contract/src) : it escrows a deposit of *)
(* its caller, records the id of the token-set instance it is asked to     *)
(* create, submits the promise that creates it, and compensates in the     *)
(* callback resolve_contract_deploy when that promise failed.              *)
(*                                                                         *)
(* A contract call either returns or panics; a panic reverts every state   *)
(* change of the call (NEAR runtime semantics), so each handler is an      *)
(* operator from the contract state to a result [ok, err, self, ret] and   *)
(* the action commits `self` only when `ok`.                               *)
(*                                                                         *)
(* Scaling.  TLC's integers are 32 bit wide, so amounts of type u128 are   *)
(* held modulo MaxU128 + 1, and fees are held in units of 10^13 (one       *)
(* percent): the source's FEE_DENOMINATOR 10^15 is 100 such units, and     *)
(* floor(a * (f * 10^13) / 10^15) = floor(a * f / 100).                    *)
(***************************************************************************)
EXTENDS Integers, Sequences, FiniteSets, TLC

VARIABLES
    state_exists,   \* env::state_exists(): the contract has been initialised
    owner_id,       \* Contract.owner_id
    token,          \* Contract.token : FungibleToken {accounts, total_supply}
    accounts,       \* Contract.accounts : Accounts<AccountInfo>
    set_info,       \* Contract.set_info : SetInfo {ratios, fee}
    last,           \* the last call: its arguments, outcome and the state before it
    round_trip,     \* a wrap and the unwrap of its caller share that follows it
    ncalls,         \* number of wrap/unwrap/fee calls that changed the state so far
    ndeposits,      \* number of deposits of underlying tokens so far
    transfers,      \* the ft_transfer_call calls whose ft_resolve_transfer has not run
    deployer,       \* the deployer's Contract {deposit_for_contract, accounts}
    promises,       \* the pending promises of deploy_contract_code, in the order of their calls
    deploy_last,    \* the last call on the deployer, and the state before it
    nrequests,      \* number of calls of deploy_contract_code that have returned so far
    nunregisters,   \* number of accounts closed on the deployer so far
    requests        \* history: the calls of deploy_contract_code that returned, and what
                    \* became of each; kept by the specifications that follow one caller

token_set_vars == <<state_exists, owner_id, token, accounts, set_info, last, round_trip,
                    ncalls, ndeposits, transfers>>
deployer_vars == <<deployer, promises, deploy_last, nrequests, nunregisters, requests>>

vars == <<state_exists, owner_id, token, accounts, set_info, last, round_trip,
          ncalls, ndeposits, transfers, deployer, promises, deploy_last, nrequests,
          nunregisters, requests>>

----------------------------------------------------------------------------
(* Bounds of the model *)

\* u128::MAX of the model's word
MaxU128 == 1048575
\* state-changing wrap / unwrap / update_owner_fee calls explored
MaxCalls == 2
\* deposits of underlying tokens explored
MaxDeposits == 2
\* components of the baskets constructed to compare their storage minimums
MaxComponents == 3
\* calls of deploy_contract_code that return, explored
MaxRequests == 2
\* NEAR an account may have deposited with the deployer
MaxNear == 20
\* accounts closed on the deployer
MaxUnregisters == 1
\* the requests of the single caller of ListSpec, and the NEAR it may deposit
MaxListRequests == 3
MaxListNear == 30

\* 10^15 in units of 10^13
FEE_DENOMINATOR == 100

----------------------------------------------------------------------------
(* Inputs *)

AccountIds == {"owner", "platform", "alice"}
TokenIds == {"t0", "t1"}

None == [some |-> FALSE, val |-> 0]
Some(x) == [some |-> TRUE, val |-> x]
unwrap_or(opt, default) == IF opt.some THEN opt.val ELSE default

TokenWithRatio(t, r) == [token_id |-> t, ratio |-> r]

\* set_ratios arguments of the constructor: empty, valid, and with a repeated id
ValidRatios == <<TokenWithRatio("t0", 1), TokenWithRatio("t1", 2)>>
RatioInputs ==
    { <<>>,
      ValidRatios,
      <<TokenWithRatio("t0", 1), TokenWithRatio("t0", 2)>>,
      <<TokenWithRatio("t0", 1), TokenWithRatio("t0", 1)>>,
      <<TokenWithRatio("t1", 2), TokenWithRatio("t0", 1), TokenWithRatio("t1", 2)>> }

\* set_ratios arguments of 1..MaxComponents distinct ids, every ratio 1, as
\* tests::test_min_account_storage builds them
BasketIds == {"t0", "t1", "t2", "t3"}
DistinctIds(n) == { f \in [1..n -> BasketIds] : \A i, j \in 1..n : f[i] = f[j] => i = j }
SizedRatioInputs ==
    UNION { { [i \in 1..n |-> TokenWithRatio(ids[i], 1)] : ids \in DistinctIds(n) } :
            n \in 1..MaxComponents }

\* <<owner_fee, platform_fee>> arguments of the constructor
FeeInputs ==
    { <<0, 0>>, <<1, 4>>, <<50, 50>>, <<60, 50>>, <<101, 0>>, <<0, 101>> }

NewFeeInputs == {0, 60, 101}
WrapAmountInputs == {None, Some(3), Some(250), Some(600)}
UnwrapAmountInputs == {1, 3}
DepositAmountInputs == {1000}
Depositors == {"alice"}
Registrants == {"alice", "owner"}
\* every call attaches the one yoctoNEAR the payable methods assert
AttachedDepositInputs == {1}

\* set_ratios arguments of the ledger specification: the valid basket, and
\* baskets with a component of ratio 0 in the first and in the last place
ZeroRatioInputs ==
    { <<TokenWithRatio("t0", 0), TokenWithRatio("t1", 2)>>,
      <<TokenWithRatio("t0", 1), TokenWithRatio("t1", 0)>> }
LedgerRatioInputs == {ValidRatios} \cup ZeroRatioInputs
\* <<owner_fee, platform_fee>> arguments of the ledger specification
LedgerFeeInputs == { <<1, 4>>, <<50, 50>> }
\* ft_transfer_call: its senders and receivers; storage_unregister: its callers
\* and its force argument
TransferSenders == {"alice"}
TransferReceivers == {"owner"}
CloseAccounts == {"alice"}
ForceInputs == {None, Some(TRUE)}

\* the deployer: its callers, the prefixes of the instance ids they ask for,
\* and the NEAR they attach to accounts_storage_deposit
Callers == {"alice", "bob"}
PrefixInputs == {"a", "b"}
StorageDepositInputs == {20}
SagaCallers == {"alice"}
ListDepositInputs == {30}

----------------------------------------------------------------------------
(* The contract state as one value, and call results *)

Self == [owner_id |-> owner_id, token |-> token, accounts |-> accounts,
         set_info |-> set_info]

Ok(self, ret) == [ok |-> TRUE, err |-> "", self |-> self, ret |-> ret]
Panic(self, msg) == [ok |-> FALSE, err |-> msg, self |-> self, ret |-> 0]

\* run F on the state of r unless r has panicked
Then(r, F(_)) == IF r.ok THEN F(r.self) ELSE r

EmptyFee == [owner_fee |-> 0, platform_fee |-> 0, platform_id |-> "", updatable |-> FALSE]
EmptyMap == [a \in {} |-> 0]
EmptyToken == [accounts |-> EmptyMap, total_supply |-> 0]
EmptyAccounts == [accounts |-> EmptyMap, default_min_storage_bal |-> 0]
EmptySetInfo == [ratios |-> <<>>, fee |-> EmptyFee]

\* map insert: LookupMap::insert / UnorderedMap::insert
Insert(map, key, value) ==
    [k \in (DOMAIN map) \cup {key} |-> IF k = key THEN value ELSE map[k]]

----------------------------------------------------------------------------
(* FungibleToken of near-contract-standards, as the contract uses it *)

\* FungibleToken::internal_register_account
internal_register_account(self, account_id) ==
    IF account_id \in DOMAIN self.token.accounts
    THEN Panic(self, "The account is already registered")
    ELSE Ok([self EXCEPT !.token.accounts = Insert(@, account_id, 0)], 0)

\* FungibleToken::internal_deposit: checked_add on the balance, then on the supply
internal_deposit(self, account_id, amount) ==
    IF account_id \notin DOMAIN self.token.accounts
    THEN Panic(self, "The account is not registered")
    ELSE IF self.token.accounts[account_id] + amount > MaxU128
    THEN Panic(self, "Balance overflow")
    ELSE IF self.token.total_supply + amount > MaxU128
    THEN Panic(self, "Total supply overflow")
    ELSE Ok([self EXCEPT !.token.accounts[account_id] = @ + amount,
                         !.token.total_supply = @ + amount], 0)

\* FungibleToken::internal_withdraw: checked_sub on the balance, then on the supply
internal_withdraw(self, account_id, amount) ==
    IF account_id \notin DOMAIN self.token.accounts
    THEN Panic(self, "The account is not registered")
    ELSE IF self.token.accounts[account_id] < amount
    THEN Panic(self, "The account doesn't have enough balance")
    ELSE IF self.token.total_supply < amount
    THEN Panic(self, "Total supply overflow")
    ELSE Ok([self EXCEPT !.token.accounts[account_id] = @ - amount,
                         !.token.total_supply = @ - amount], 0)

\* FungibleToken::internal_transfer
internal_transfer(self, sender_id, receiver_id, amount) ==
    IF sender_id = receiver_id
    THEN Panic(self, "Sender and receiver should be different")
    ELSE IF amount = 0 THEN Panic(self, "The amount should be a positive number")
    ELSE LET deposit(s) == internal_deposit(s, receiver_id, amount)
         IN Then(internal_withdraw(self, sender_id, amount), deposit)

\* FungibleToken::internal_storage_unregister : closed tells whether an account
\* was closed, ret is the balance it was closed with
internal_storage_unregister(self, account_id, force) ==
    IF account_id \notin DOMAIN self.token.accounts
    THEN [ok |-> TRUE, err |-> "", self |-> self, ret |-> 0, closed |-> FALSE]
    ELSE
    LET balance == self.token.accounts[account_id]
        kept == [k \in (DOMAIN self.token.accounts) \ {account_id} |->
                     self.token.accounts[k]]
    IN IF balance = 0 \/ force
       THEN [ok |-> TRUE, err |-> "",
             self |-> [self EXCEPT !.token.accounts = kept,
                                   !.token.total_supply = @ - balance],
             ret |-> balance, closed |-> TRUE]
       ELSE [ok |-> FALSE,
             err |-> "Can't unregister the account with the positive balance without force",
             self |-> self, ret |-> 0, closed |-> FALSE]

\* FungibleToken::internal_ft_resolve_transfer : the unused amount is taken
\* back from the receiver, and burned when the sender's account is gone;
\* ret is the amount burned
internal_ft_resolve_transfer(self, sender_id, receiver_id, amount, unused_amount) ==
    LET receiver_balance == IF receiver_id \in DOMAIN self.token.accounts
                            THEN self.token.accounts[receiver_id] ELSE 0
        refund_amount == IF receiver_balance < unused_amount
                         THEN receiver_balance ELSE unused_amount
    IN
    IF unused_amount = 0 \/ receiver_balance = 0 THEN Ok(self, 0)
    ELSE
    LET taken == [self EXCEPT !.token.accounts[receiver_id] = @ - refund_amount]
    IN IF sender_id \in DOMAIN self.token.accounts
       THEN Ok([taken EXCEPT !.token.accounts[sender_id] = @ + refund_amount], 0)
       ELSE Ok([taken EXCEPT !.token.total_supply = @ - refund_amount], refund_amount)

----------------------------------------------------------------------------
(* Internal balances of the underlying tokens (near-internal-balances-plugin) *)

NoBalances == [t \in TokenIds |-> 0]

\* get_ft_balance_internal: the balance, 0 when the account or the entry is absent
get_ft_balance_internal(self, account_id, token_id) ==
    IF account_id \in DOMAIN self.accounts.accounts
    THEN self.accounts.accounts[account_id][token_id]
    ELSE 0

\* increase_balance: the account must exist
increase_balance(self, account_id, token_id, amount) ==
    IF account_id \notin DOMAIN self.accounts.accounts
    THEN Panic(self, "Account is not registered")
    ELSE IF self.accounts.accounts[account_id][token_id] + amount > MaxU128
    THEN Panic(self, "Balance overflow")
    ELSE Ok([self EXCEPT !.accounts.accounts[account_id][token_id] = @ + amount], 0)

\* subtract_balance: the account must exist and hold at least amount
subtract_balance(self, account_id, token_id, amount) ==
    IF account_id \notin DOMAIN self.accounts.accounts
    THEN Panic(self, "Account is not registered")
    ELSE IF self.accounts.accounts[account_id][token_id] < amount
    THEN Panic(self, "The account does not have enough balance")
    ELSE Ok([self EXCEPT !.accounts.accounts[account_id][token_id] = @ - amount], 0)

\* Accounts::new() of near-account: no account, and the base minimum of the
\* storage balance an account must hold
Accounts_new == [accounts |-> EmptyMap, default_min_storage_bal |-> 7]

\* get_storage_cost_for_one_balance: the storage cost of one balance entry,
\* the same for every entry
get_storage_cost_for_one_balance(self) == 3

----------------------------------------------------------------------------
(* token_set_info.rs *)

\* mutant of push_ratios: uniqueness is checked on (token id, ratio) pairs
RECURSIVE push_ratios_by_pair(_, _, _, _)
push_ratios_by_pair(set_ratios, i, token_ids, ratios) ==
    IF i > Len(set_ratios)
    THEN [ok |-> TRUE, err |-> "", ratios |-> ratios]
    ELSE IF <<set_ratios[i].token_id, set_ratios[i].ratio>> \in token_ids
    THEN [ok |-> FALSE, err |-> "Each token in the ratio must be unique", ratios |-> <<>>]
    ELSE push_ratios_by_pair(set_ratios, i + 1,
                             token_ids \cup {<<set_ratios[i].token_id, set_ratios[i].ratio>>},
                             Append(ratios, TokenWithRatio(set_ratios[i].token_id,
                                                           set_ratios[i].ratio)))

\* the loop of SetInfo::new over set_ratios: the HashSet token_ids rejects a
\* repeated token id, otherwise the entry is pushed on ratios
RECURSIVE push_ratios(_, _, _, _)
push_ratios(set_ratios, i, token_ids, ratios) ==
    IF i > Len(set_ratios)
    THEN [ok |-> TRUE, err |-> "", ratios |-> ratios]
    ELSE IF set_ratios[i].token_id \in token_ids
    THEN [ok |-> FALSE, err |-> "Each token in the ratio must be unique", ratios |-> <<>>]
    ELSE push_ratios(set_ratios, i + 1, token_ids \cup {set_ratios[i].token_id},
                     Append(ratios, TokenWithRatio(set_ratios[i].token_id,
                                                   set_ratios[i].ratio)))

\* mutant of SetInfo_new: a fee sum equal to the denominator is refused
SetInfo_new_sum_strict(set_ratios, set_initial_fee) ==
    IF Len(set_ratios) = 0
    THEN [ok |-> FALSE, err |-> "Expected at least one token in the set",
          set_info |-> EmptySetInfo]
    ELSE LET pushed == push_ratios(set_ratios, 1, {}, <<>>) IN
    IF ~pushed.ok
    THEN [ok |-> FALSE, err |-> pushed.err, set_info |-> EmptySetInfo]
    ELSE IF set_initial_fee.owner_fee > FEE_DENOMINATOR
            \/ set_initial_fee.platform_fee > FEE_DENOMINATOR
    THEN [ok |-> FALSE, err |-> "Expected the fees to be less than the fee denominator",
          set_info |-> EmptySetInfo]
    ELSE IF set_initial_fee.owner_fee + set_initial_fee.platform_fee >= FEE_DENOMINATOR
    THEN [ok |-> FALSE,
          err |-> "Expected the sum of fees to be less than the fee denominator",
          set_info |-> EmptySetInfo]
    ELSE [ok |-> TRUE, err |-> "",
          set_info |-> [ratios |-> pushed.ratios, fee |-> set_initial_fee]]

\* SetInfo::new : [ok, err, set_info]
SetInfo_new(set_ratios, set_initial_fee) ==
    IF Len(set_ratios) = 0
    THEN [ok |-> FALSE, err |-> "Expected at least one token in the set",
          set_info |-> EmptySetInfo]
    ELSE LET pushed == push_ratios(set_ratios, 1, {}, <<>>) IN
    IF ~pushed.ok
    THEN [ok |-> FALSE, err |-> pushed.err, set_info |-> EmptySetInfo]
    ELSE IF set_initial_fee.owner_fee > FEE_DENOMINATOR
            \/ set_initial_fee.platform_fee > FEE_DENOMINATOR
    THEN [ok |-> FALSE, err |-> "Expected the fees to be less than the fee denominator",
          set_info |-> EmptySetInfo]
    ELSE IF set_initial_fee.owner_fee + set_initial_fee.platform_fee > FEE_DENOMINATOR
    THEN [ok |-> FALSE,
          err |-> "Expected the sum of fees to be less than the fee denominator",
          set_info |-> EmptySetInfo]
    ELSE [ok |-> TRUE, err |-> "",
          set_info |-> [ratios |-> pushed.ratios, fee |-> set_initial_fee]]

\* Contract::on_burn : credit amount * ratio of every underlying token
RECURSIVE on_burn_from(_, _, _, _)
on_burn_from(self, i, account_id, amount) ==
    IF i > Len(self.set_info.ratios)
    THEN Ok(self, 0)
    ELSE LET ratio == self.set_info.ratios[i]
             r == IF ratio.ratio * amount > MaxU128
                  THEN Panic(self, "attempt to multiply with overflow")
                  ELSE increase_balance(self, account_id, ratio.token_id,
                                        ratio.ratio * amount)
         IN IF r.ok THEN on_burn_from(r.self, i + 1, account_id, amount) ELSE r

\* mutant of on_burn: the ratio is left out of the credit
RECURSIVE on_burn_no_ratio_from(_, _, _, _)
on_burn_no_ratio_from(self, i, account_id, amount) ==
    IF i > Len(self.set_info.ratios)
    THEN Ok(self, 0)
    ELSE LET r == increase_balance(self, account_id, self.set_info.ratios[i].token_id,
                                   amount)
         IN IF r.ok THEN on_burn_no_ratio_from(r.self, i + 1, account_id, amount) ELSE r

on_burn_no_ratio(self, account_id, amount) ==
    on_burn_no_ratio_from(self, 1, account_id, amount)

\* mutant of on_burn: the loop starts at the second component
on_burn_skip_first(self, account_id, amount) ==
    on_burn_from(self, 2, account_id, amount)

\* mutant of on_burn: the components are credited to the owner
on_burn_to_owner(self, account_id, amount) == on_burn_from(self, 1, self.owner_id, amount)

on_burn(self, account_id, amount) == on_burn_from(self, 1, account_id, amount)

\* mutant of unwrap_token: the derivative units are not withdrawn
unwrap_token_no_withdraw(self, account_id, amount) == on_burn(self, account_id, amount)

\* Contract::unwrap_token, account_id being env::predecessor_account_id()
unwrap_token(self, account_id, amount) ==
    LET burn(s) == on_burn(s, account_id, amount)
    IN Then(internal_withdraw(self, account_id, amount), burn)

\* mutant of change_owner_fee: the new fee is validated as at construction
change_owner_fee_validated(self, new_fee) ==
    IF ~self.set_info.fee.updatable
    THEN Panic(self, "Cannot update a token set fee unless the fee property is marked initially updatable")
    ELSE IF new_fee + self.set_info.fee.platform_fee > FEE_DENOMINATOR
    THEN Panic(self, "Expected the sum of fees to be less than the fee denominator")
    ELSE Ok([self EXCEPT !.set_info.fee.owner_fee = new_fee], 0)

\* Contract::change_owner_fee
change_owner_fee(self, new_fee) ==
    IF ~self.set_info.fee.updatable
    THEN Panic(self, "Cannot update a token set fee unless the fee property is marked initially updatable")
    ELSE Ok([self EXCEPT !.set_info.fee.owner_fee = new_fee], 0)

\* Contract::decrease_potentials
RECURSIVE decrease_potentials_from(_, _, _, _)
decrease_potentials_from(self, i, amount_out, account_id) ==
    IF i > Len(self.set_info.ratios)
    THEN Ok(self, 0)
    ELSE LET ratio == self.set_info.ratios[i]
             r == IF ratio.ratio * amount_out > MaxU128
                  THEN Panic(self, "attempt to multiply with overflow")
                  ELSE subtract_balance(self, account_id, ratio.token_id,
                                        ratio.ratio * amount_out)
         IN IF r.ok THEN decrease_potentials_from(r.self, i + 1, amount_out, account_id)
            ELSE r

\* mutant of decrease_potentials: the ratio is left out of the debit
RECURSIVE decrease_potentials_no_ratio_from(_, _, _, _)
decrease_potentials_no_ratio_from(self, i, amount_out, account_id) ==
    IF i > Len(self.set_info.ratios)
    THEN Ok(self, 0)
    ELSE LET r == subtract_balance(self, account_id, self.set_info.ratios[i].token_id,
                                   amount_out)
         IN IF r.ok
            THEN decrease_potentials_no_ratio_from(r.self, i + 1, amount_out, account_id)
            ELSE r

decrease_potentials_no_ratio(self, amount_out, account_id) ==
    decrease_potentials_no_ratio_from(self, 1, amount_out, account_id)

decrease_potentials(self, amount_out, account_id) ==
    decrease_potentials_from(self, 1, amount_out, account_id)

\* Contract::get_max_amount : [ok, err, val]; bal / ratio panics on a zero ratio
RECURSIVE get_max_amount_from(_, _, _, _)
get_max_amount_from(self, i, account_id, min) ==
    IF i > Len(self.set_info.ratios)
    THEN [ok |-> TRUE, err |-> "", val |-> min]
    ELSE LET ratio == self.set_info.ratios[i]
             bal == get_ft_balance_internal(self, account_id, ratio.token_id)
         IN IF ratio.ratio = 0
            THEN [ok |-> FALSE, err |-> "attempt to divide by zero", val |-> 0]
            ELSE LET amount_out == bal \div ratio.ratio
                 IN get_max_amount_from(self, i + 1, account_id,
                                        IF amount_out < min THEN amount_out ELSE min)

\* mutant of get_max_amount: the running minimum starts at 0
get_max_amount_from_zero(self, account_id) == get_max_amount_from(self, 1, account_id, 0)

\* mutant of get_max_amount: a component of ratio 0 is passed over
get_max_amount_zero_ratio_skipped(self, account_id) ==
    get_max_amount_from([self EXCEPT !.set_info.ratios =
                                       SelectSeq(@, LAMBDA r : r.ratio # 0)],
                        1, account_id, MaxU128)

get_max_amount(self, account_id) == get_max_amount_from(self, 1, account_id, MaxU128)

\* mutant of fee_share: the division rounds up
fee_share_rounded_up(amount, fee) ==
    (amount * fee + FEE_DENOMINATOR - 1) \div FEE_DENOMINATOR

\* (U256::from(amount) * U256::from(fee) / U256::from(FEE_DENOMINATOR))
fee_share(amount, fee) == (amount * fee) \div FEE_DENOMINATOR

\* mutant of amount_wrap: a request above the maximum is clamped to it
amount_wrap_clamped(amount, max_amount_wrapped) ==
    IF amount.some /\ amount.val > max_amount_wrapped
    THEN max_amount_wrapped
    ELSE unwrap_or(amount, max_amount_wrapped)

\* line 72: amount.unwrap_or(max_amount_wrapped)
amount_wrap(amount, max_amount_wrapped) == unwrap_or(amount, max_amount_wrapped)

\* mutant of amount_wrap_caller: the platform's increment is not deducted
amount_wrap_caller_less_owner_only(wrapped, owner_inrcr, platform_incr) ==
    (wrapped - owner_inrcr) % (MaxU128 + 1)

\* line 87: amount_wrap - owner_inrcr - platform_incr, in the u128 word
amount_wrap_caller(wrapped, owner_inrcr, platform_incr) ==
    (wrapped - owner_inrcr - platform_incr) % (MaxU128 + 1)

\* Contract::wrap_internal, caller being env::predecessor_account_id().
\* overflow_checks is the build's setting for `amount_wrap - owner_inrcr -
\* platform_incr`: with it the subtraction panics when it underflows, without
\* it the result wraps around.  ret is the amount wrapped.
wrap_internal(self, caller, owner, amount, overflow_checks) ==
    LET max == get_max_amount(self, caller) IN
    IF ~max.ok THEN Panic(self, max.err) ELSE
    LET max_amount_wrapped == max.val
        wrapped == amount_wrap(amount, max_amount_wrapped)
    IN
    IF wrapped > max_amount_wrapped
    THEN Panic(self, "Maximum amount that can be wrapped is exceeded")
    ELSE
    LET owner_inrcr == fee_share(wrapped, self.set_info.fee.owner_fee)
        platform_incr == fee_share(wrapped, self.set_info.fee.platform_fee)
    IN
    IF owner_inrcr > MaxU128 \/ platform_incr > MaxU128
    THEN Panic(self, "Integer overflow when casting to u128")
    ELSE IF overflow_checks /\ wrapped < owner_inrcr + platform_incr
    THEN Panic(self, "attempt to subtract with overflow")
    ELSE
    LET caller_incr == amount_wrap_caller(wrapped, owner_inrcr, platform_incr)
        deposit_owner(s) == internal_deposit(s, owner, owner_inrcr)
        deposit_platform(s) ==
            internal_deposit(s, s.set_info.fee.platform_id, platform_incr)
        decrease(s) == decrease_potentials(s, wrapped, caller)
        r == Then(Then(Then(internal_deposit(self, caller, caller_incr),
                            deposit_owner), deposit_platform), decrease)
    IN IF r.ok
       THEN [ok |-> TRUE, err |-> "", self |-> r.self, ret |-> wrapped,
             amount_wrap_caller |-> caller_incr,
             owner_inrcr |-> owner_inrcr, platform_incr |-> platform_incr]
       ELSE r

----------------------------------------------------------------------------
(* lib.rs *)

\* mutant of account_storage_min: the cost grows with the square of the count
account_storage_min_squared(default_min_storage_bal, numb_tokens, cost_for_one_balance) ==
    default_min_storage_bal + numb_tokens * numb_tokens * cost_for_one_balance

\* lines 191-192: the minimum account storage required for wrapping
account_storage_min(default_min_storage_bal, numb_tokens, cost_for_one_balance) ==
    default_min_storage_bal + numb_tokens * cost_for_one_balance

\* Contract::new, reached through new_default_meta
Contract_new(self, exists, owner, set_ratios, set_initial_fee) ==
    IF exists THEN Panic(self, "Already initialized") ELSE
    LET platform == set_initial_fee.platform_id
        numb_tokens == Len(set_ratios)
        info == SetInfo_new(set_ratios, set_initial_fee)
    IN
    IF ~info.ok THEN Panic(self, info.err) ELSE
    LET this == [owner_id |-> owner, token |-> EmptyToken, accounts |-> Accounts_new,
                 set_info |-> info.set_info]
        register_platform(s) ==
            IF platform # owner THEN internal_register_account(s, platform) ELSE Ok(s, 0)
        set_min_storage(s) ==
            Ok([s EXCEPT !.accounts.default_min_storage_bal =
                             account_storage_min(@, numb_tokens,
                                                 get_storage_cost_for_one_balance(s))], 0)
    IN Then(Then(internal_register_account(this, owner), register_platform),
            set_min_storage)

\* every other method of a PanicOnDefault contract panics before initialisation,
\* and the payable methods assert_one_yocto()
Guarded(self, exists, attached_deposit, r) ==
    IF ~exists THEN Panic(self, "The contract is not initialized")
    ELSE IF attached_deposit # 1
    THEN Panic(self, "Requires attached deposit of exactly 1 yoctoNEAR")
    ELSE r

\* Contract::wrap
Contract_wrap(self, exists, caller, attached_deposit, amount, overflow_checks) ==
    Guarded(self, exists, attached_deposit,
            wrap_internal(self, caller, self.owner_id, amount, overflow_checks))

\* Contract::unwrap
Contract_unwrap(self, exists, caller, attached_deposit, amount) ==
    Guarded(self, exists, attached_deposit, unwrap_token(self, caller, amount))

\* mutant of Contract_update_owner_fee: the caller is not compared with the owner
Contract_update_owner_fee_any_caller(self, exists, caller, attached_deposit, new_fee) ==
    Guarded(self, exists, attached_deposit, change_owner_fee(self, new_fee))

\* Contract::update_owner_fee
Contract_update_owner_fee(self, exists, caller, attached_deposit, new_fee) ==
    Guarded(self, exists, attached_deposit,
            IF caller # self.owner_id
            THEN Panic(self, "Only the owner can update the fee")
            ELSE change_owner_fee(self, new_fee))

\* mutant of on_account_closed: the balance the account closed with is dropped
on_account_closed_dropped(self, account_id, balance) == Ok(self, 0)

\* Contract::on_account_closed : the components of the closed balance are
\* credited to the platform
on_account_closed(self, account_id, balance) ==
    on_burn(self, self.set_info.fee.platform_id, balance)

\* Contract::on_tokens_burned
on_tokens_burned(self, account_id, amount) == on_burn(self, account_id, amount)

\* storage_unregister of impl_fungible_token_storage!(Contract, token,
\* on_account_closed), account_id being env::predecessor_account_id()
Contract_storage_unregister(self, exists, account_id, attached_deposit, force) ==
    LET r == internal_storage_unregister(self, account_id, unwrap_or(force, FALSE))
    IN Guarded(self, exists, attached_deposit,
               IF r.ok /\ r.closed THEN on_account_closed(r.self, account_id, r.ret)
               ELSE r)

\* ft_transfer_call of impl_fungible_token_core!(Contract, token,
\* on_tokens_burned): the transfer, ahead of the promise ft_on_transfer and
\* of the callback ft_resolve_transfer
Contract_ft_transfer_call(self, exists, sender_id, attached_deposit, receiver_id, amount) ==
    Guarded(self, exists, attached_deposit,
            internal_transfer(self, sender_id, receiver_id, amount))

\* ft_resolve_transfer of impl_fungible_token_core!(Contract, token,
\* on_tokens_burned); returned is the value of ft_on_transfer, None when that
\* promise failed
Contract_ft_resolve_transfer(self, sender_id, receiver_id, amount, returned) ==
    LET unused_amount == IF returned.some /\ returned.val < amount
                         THEN returned.val ELSE amount
        r == internal_ft_resolve_transfer(self, sender_id, receiver_id, amount,
                                          unused_amount)
    IN IF r.ok /\ r.ret > 0 THEN on_tokens_burned(r.self, sender_id, r.ret) ELSE r

\* tests::register_user : storage_deposit on the token and on the accounts
register_user_call(self, exists, account) ==
    IF ~exists THEN Panic(self, "The contract is not initialized") ELSE
    Ok([self EXCEPT
          !.token.accounts =
              IF account \in DOMAIN @ THEN @ ELSE Insert(@, account, 0),
          !.accounts.accounts =
              IF account \in DOMAIN @ THEN @ ELSE Insert(@, account, NoBalances)], 0)

\* a deposit of an underlying token into the contract: increase_balance
deposit_call(self, exists, account, token_id, amount) ==
    IF ~exists THEN Panic(self, "The contract is not initialized")
    ELSE increase_balance(self, account, token_id, amount)

----------------------------------------------------------------------------
(* Accounts<AccountInfo> of near-account, as the deployer uses it: an        *)
(* UnorderedMap from account id to Account {near_amount,                     *)
(* near_used_for_storage, info}, held as the sequence of its entries.        *)

\* the index of an account's entry, 0 when it has none
IndexOfAccount(accs, account_id) ==
    IF \E i \in 1..Len(accs) : accs[i].account_id = account_id
    THEN CHOOSE i \in 1..Len(accs) : accs[i].account_id = account_id
    ELSE 0

\* Accounts::get_account : Option<Account>
get_account(self, account_id) ==
    LET i == IndexOfAccount(self.accounts, account_id)
    IN IF i = 0 THEN None ELSE Some(self.accounts[i])

\* Account::get_available_near : the NEAR deposited and not in use
get_available_near(account) == account.near_amount - account.near_used_for_storage

\* Accounts::insert_account_check_storage : the account is written, provided
\* its deposit covers the NEAR it has in use
insert_account_check_storage(self, account_id, account) ==
    LET i == IndexOfAccount(self.accounts, account_id) IN
    IF account.near_used_for_storage > account.near_amount
    THEN Panic(self, "Not enough NEAR to cover the storage used")
    ELSE IF i = 0
    THEN Ok([self EXCEPT !.accounts = Append(@, account)], 0)
    ELSE Ok([self EXCEPT !.accounts[i] = account], 0)

\* Vector::swap_remove : the last element takes the place of the removed one
swap_remove(vec, idx) ==
    LET n == Len(vec)
    IN IF idx = n THEN SubSeq(vec, 1, n - 1)
       ELSE [SubSeq(vec, 1, n - 1) EXCEPT ![idx] = vec[n]]

\* accounts_storage_deposit of NearAccounts: the account is registered when
\* it is new, and the attached NEAR is added to its deposit
accounts_storage_deposit(self, account_id, amount) ==
    LET got == get_account(self, account_id)
        account == IF got.some THEN got.val
                   ELSE [account_id |-> account_id, near_amount |-> 0,
                         near_used_for_storage |-> 0,
                         info |-> [deployed_contracts |-> <<>>]]
    IN insert_account_check_storage(self, account_id,
                                    [account EXCEPT !.near_amount = @ + amount])

\* accounts_storage_unregister of NearAccounts: the account is closed and its
\* entry removed from the map
accounts_storage_unregister(self, account_id) ==
    LET i == IndexOfAccount(self.accounts, account_id)
    IN IF i = 0 THEN Panic(self, "The account is not registered")
       ELSE Ok([self EXCEPT !.accounts = swap_remove(@, i)], 0)

----------------------------------------------------------------------------
(* deployer-contract/src/lib.rs *)

\* env::current_account_id() of the deployer
current_account_id == "deployer"

\* Contract::default : deposit_for_contract is 10 * 10^24 yoctoNEAR, held in NEAR
Contract_default == [deposit_for_contract |-> 10, accounts |-> <<>>]

\* format!("{}.{}", contract_account_prefix, env::current_account_id())
format_account_id(contract_account_prefix) ==
    contract_account_prefix \o "." \o current_account_id

\* Contract::get_all_sets : the deployed_contracts of every account, in the
\* order of the map's entries
RECURSIVE get_all_sets_from(_, _)
get_all_sets_from(self, i) ==
    IF i > Len(self.accounts) THEN <<>>
    ELSE self.accounts[i].info.deployed_contracts \o get_all_sets_from(self, i + 1)

\* mutant of get_all_sets: only the first account's list is returned
get_all_sets_first_account(self) ==
    IF Len(self.accounts) = 0 THEN <<>>
    ELSE self.accounts[1].info.deployed_contracts

get_all_sets(self) == get_all_sets_from(self, 1)

\* mutant of deploy_contract_code: the deposit is compared with near_amount,
\* not with the available NEAR
deploy_contract_code_total(self, caller, attached_deposit, contract_account_prefix) ==
    LET account_id == format_account_id(contract_account_prefix)
        got == get_account(self, caller)
    IN
    IF attached_deposit # 1
    THEN Panic(self, "Requires attached deposit of exactly 1 yoctoNEAR")
    ELSE IF ~got.some THEN Panic(self, "The account is not registered")
    ELSE IF ~(got.val.near_amount >= self.deposit_for_contract)
    THEN Panic(self, "Expected at least 10000000000000000000000000 Yocto Near")
    ELSE
    LET debited == [got.val EXCEPT !.near_used_for_storage =
                                       @ + self.deposit_for_contract]
        pushed == [debited EXCEPT !.info.deployed_contracts = Append(@, account_id)]
        r == insert_account_check_storage(self, caller, pushed)
    IN IF r.ok
       THEN [ok |-> TRUE, err |-> "", self |-> r.self, ret |-> 0,
             promise |-> [caller |-> caller, contract_id |-> account_id]]
       ELSE r

\* mutant of deploy_contract_code: the deposit is not added to the NEAR in use
deploy_contract_code_no_debit(self, caller, attached_deposit, contract_account_prefix) ==
    LET account_id == format_account_id(contract_account_prefix)
        got == get_account(self, caller)
    IN
    IF attached_deposit # 1
    THEN Panic(self, "Requires attached deposit of exactly 1 yoctoNEAR")
    ELSE IF ~got.some THEN Panic(self, "The account is not registered")
    ELSE IF ~(get_available_near(got.val) >= self.deposit_for_contract)
    THEN Panic(self, "Expected at least 10000000000000000000000000 Yocto Near")
    ELSE
    LET r == insert_account_check_storage(
                 self, caller,
                 [got.val EXCEPT !.info.deployed_contracts = Append(@, account_id)])
    IN IF r.ok
       THEN [ok |-> TRUE, err |-> "", self |-> r.self, ret |-> 0,
             promise |-> [caller |-> caller, contract_id |-> account_id]]
       ELSE r

\* mutant of deploy_contract_code: the instance id is not pushed on the list
deploy_contract_code_no_push(self, caller, attached_deposit, contract_account_prefix) ==
    LET account_id == format_account_id(contract_account_prefix)
        got == get_account(self, caller)
    IN
    IF attached_deposit # 1
    THEN Panic(self, "Requires attached deposit of exactly 1 yoctoNEAR")
    ELSE IF ~got.some THEN Panic(self, "The account is not registered")
    ELSE IF ~(get_available_near(got.val) >= self.deposit_for_contract)
    THEN Panic(self, "Expected at least 10000000000000000000000000 Yocto Near")
    ELSE
    LET r == insert_account_check_storage(
                 self, caller,
                 [got.val EXCEPT !.near_used_for_storage = @ + self.deposit_for_contract])
    IN IF r.ok
       THEN [ok |-> TRUE, err |-> "", self |-> r.self, ret |-> 0,
             promise |-> [caller |-> caller, contract_id |-> account_id]]
       ELSE r

\* mutant of deploy_contract_code: the instance id is derived from the caller
\* and the prefix
deploy_contract_code_caller_id(self, caller, attached_deposit, contract_account_prefix) ==
    LET account_id == contract_account_prefix \o "." \o caller \o "." \o current_account_id
        got == get_account(self, caller)
    IN
    IF attached_deposit # 1
    THEN Panic(self, "Requires attached deposit of exactly 1 yoctoNEAR")
    ELSE IF ~got.some THEN Panic(self, "The account is not registered")
    ELSE IF ~(get_available_near(got.val) >= self.deposit_for_contract)
    THEN Panic(self, "Expected at least 10000000000000000000000000 Yocto Near")
    ELSE
    LET debited == [got.val EXCEPT !.near_used_for_storage =
                                       @ + self.deposit_for_contract]
        pushed == [debited EXCEPT !.info.deployed_contracts = Append(@, account_id)]
        r == insert_account_check_storage(self, caller, pushed)
    IN IF r.ok
       THEN [ok |-> TRUE, err |-> "", self |-> r.self, ret |-> 0,
             promise |-> [caller |-> caller, contract_id |-> account_id]]
       ELSE r

\* Contract::deploy_contract_code, caller being env::predecessor_account_id().
\* promise is the chain create_account / transfer / add_full_access_key /
\* deploy_contract / new_default_meta on account_id, followed by the
\* callback resolve_contract_deploy(caller, contract_id); it is submitted only
\* when the call returns.
deploy_contract_code(self, caller, attached_deposit, contract_account_prefix) ==
    LET account_id == format_account_id(contract_account_prefix)
        got == get_account(self, caller)
    IN
    IF attached_deposit # 1
    THEN Panic(self, "Requires attached deposit of exactly 1 yoctoNEAR")
    ELSE IF ~got.some THEN Panic(self, "The account is not registered")
    ELSE
    LET available_near == get_available_near(got.val) IN
    IF ~(available_near >= self.deposit_for_contract)
    THEN Panic(self, "Expected at least 10000000000000000000000000 Yocto Near")
    ELSE
    LET debited == [got.val EXCEPT !.near_used_for_storage =
                                       @ + self.deposit_for_contract]
        pushed == [debited EXCEPT !.info.deployed_contracts = Append(@, account_id)]
        r == insert_account_check_storage(self, caller, pushed)
    IN IF r.ok
       THEN [ok |-> TRUE, err |-> "", self |-> r.self, ret |-> 0,
             promise |-> [caller |-> caller, contract_id |-> account_id]]
       ELSE r

\* the index of the first element of vec equal to x, 0 when there is none:
\* iter().enumerate().find(..)
find(vec, x) ==
    IF \E i \in 1..Len(vec) : vec[i] = x
    THEN CHOOSE i \in 1..Len(vec) : vec[i] = x /\ \A j \in 1..(i - 1) : vec[j] # x
    ELSE 0

\* mutant of compensate: the last entry of the list is removed, as by pop(),
\* whichever request pushed it
compensate_pop(self, caller, contract_id, overflow_checks) ==
    LET got == get_account(self, caller) IN
    IF ~got.some THEN Ok(self, 0) ELSE
    IF overflow_checks /\ got.val.near_used_for_storage < self.deposit_for_contract
    THEN Panic(self, "attempt to subtract with overflow")
    ELSE
    LET refunded == [got.val EXCEPT !.near_used_for_storage =
                                        (@ - self.deposit_for_contract) % (MaxU128 + 1)]
        idx == find(refunded.info.deployed_contracts, contract_id)
    IN IF idx = 0 THEN Ok(self, 0)
       ELSE insert_account_check_storage(
                self, caller,
                [refunded EXCEPT !.info.deployed_contracts =
                                     SubSeq(@, 1, Len(@) - 1)])

\* mutant of compensate: every occurrence of the contract id is removed, as
\* by retain(|c| c != contract_id)
compensate_retain(self, caller, contract_id, overflow_checks) ==
    LET got == get_account(self, caller) IN
    IF ~got.some THEN Ok(self, 0) ELSE
    IF overflow_checks /\ got.val.near_used_for_storage < self.deposit_for_contract
    THEN Panic(self, "attempt to subtract with overflow")
    ELSE
    LET refunded == [got.val EXCEPT !.near_used_for_storage =
                                        (@ - self.deposit_for_contract) % (MaxU128 + 1)]
        idx == find(refunded.info.deployed_contracts, contract_id)
    IN IF idx = 0 THEN Ok(self, 0)
       ELSE insert_account_check_storage(
                self, caller,
                [refunded EXCEPT !.info.deployed_contracts =
                                     SelectSeq(@, LAMBDA c : c # contract_id)])

\* mutant of compensate: the deposit is refunded and the entry is kept
compensate_keep_entry(self, caller, contract_id, overflow_checks) ==
    LET got == get_account(self, caller) IN
    IF ~got.some THEN Ok(self, 0) ELSE
    IF overflow_checks /\ got.val.near_used_for_storage < self.deposit_for_contract
    THEN Panic(self, "attempt to subtract with overflow")
    ELSE
    LET refunded == [got.val EXCEPT !.near_used_for_storage =
                                        (@ - self.deposit_for_contract) % (MaxU128 + 1)]
        idx == find(refunded.info.deployed_contracts, contract_id)
    IN IF idx = 0 THEN Ok(self, 0)
       ELSE insert_account_check_storage(self, caller, refunded)

\* the Failed arm of resolve_contract_deploy.  overflow_checks is the build's
\* setting for `near_used_for_storage -= deposit_for_contract`.  The account
\* is written back only when the contract id was found.
compensate(self, caller, contract_id, overflow_checks) ==
    LET got == get_account(self, caller) IN
    IF ~got.some THEN Ok(self, 0) ELSE
    IF overflow_checks /\ got.val.near_used_for_storage < self.deposit_for_contract
    THEN Panic(self, "attempt to subtract with overflow")
    ELSE
    LET refunded == [got.val EXCEPT !.near_used_for_storage =
                                        (@ - self.deposit_for_contract) % (MaxU128 + 1)]
        idx == find(refunded.info.deployed_contracts, contract_id)
    IN IF idx = 0 THEN Ok(self, 0)
       ELSE insert_account_check_storage(
                self, caller,
                [refunded EXCEPT !.info.deployed_contracts = swap_remove(@, idx)])

\* mutant of resolve_contract_deploy: the caller's account is read with
\* get_account_checked, which panics when there is none
resolve_contract_deploy_checked(self, caller, contract_id, promise_result, overflow_checks) ==
    IF promise_result = "NotReady"
    THEN Panic(self, "internal error: entered unreachable code")
    ELSE IF promise_result = "Successful" THEN Ok(self, 0)
    ELSE IF ~get_account(self, caller).some
    THEN Panic(self, "The account is not registered")
    ELSE compensate(self, caller, contract_id, overflow_checks)

\* mutant of resolve_contract_deploy: the deposit is not refunded
resolve_contract_deploy_no_refund(self, caller, contract_id, promise_result, overflow_checks) ==
    LET got == get_account(self, caller)
        idx == IF got.some THEN find(got.val.info.deployed_contracts, contract_id) ELSE 0
    IN IF promise_result # "Failed" \/ idx = 0 THEN Ok(self, 0)
       ELSE insert_account_check_storage(
                self, caller,
                [got.val EXCEPT !.info.deployed_contracts = swap_remove(@, idx)])

\* mutant of resolve_contract_deploy: a successful promise is compensated too
resolve_contract_deploy_always(self, caller, contract_id, promise_result, overflow_checks) ==
    compensate(self, caller, contract_id, overflow_checks)

\* Contract::resolve_contract_deploy, promise_result being env::promise_result(0)
resolve_contract_deploy(self, caller, contract_id, promise_result, overflow_checks) ==
    IF promise_result = "NotReady"
    THEN Panic(self, "internal error: entered unreachable code")
    ELSE IF promise_result = "Successful" THEN Ok(self, 0)
    ELSE compensate(self, caller, contract_id, overflow_checks)

----------------------------------------------------------------------------
(* The state machine *)

\* no promise: the call submitted none, or was not a callback
NoPromise ==
    [id |-> 0, caller |-> "", contract_id |-> "", promise_result |-> "NotReady",
     pre |-> None, touched |-> FALSE, closed |-> FALSE]

NoRoundTrip ==
    [stage |-> "none", caller |-> "", before |-> NoBalances, gross |-> 0, share |-> 0,
     owner_inrcr |-> 0, platform_incr |-> 0, fee |-> EmptyFee]

Init ==
    /\ state_exists = FALSE
    /\ owner_id = ""
    /\ token = EmptyToken
    /\ accounts = EmptyAccounts
    /\ set_info = EmptySetInfo
    /\ last = [op |-> "none", caller |-> "", args |-> <<>>, ok |-> TRUE, err |-> "",
               ret |-> None, internal_ret |-> 0, exists |-> FALSE, pre |-> Self,
               reached |-> Self]
    /\ round_trip = NoRoundTrip
    /\ ncalls = 0
    /\ ndeposits = 0
    /\ transfers = <<>>
    /\ deployer = Contract_default
    /\ promises = <<>>
    /\ deploy_last = [op |-> "none", caller |-> "", args |-> <<>>, ok |-> TRUE, err |-> "",
                      promise |-> NoPromise, ret |-> <<>>,
                      pre |-> Contract_default, npromises |-> 0]
    /\ nrequests = 0
    /\ nunregisters = 0
    /\ requests = <<>>

\* mutant of Commit: the state the call had reached is kept when it panics
Commit_no_revert(op, caller, args, r) ==
    /\ owner_id' = r.self.owner_id
    /\ token' = r.self.token
    /\ accounts' = r.self.accounts
    /\ set_info' = r.self.set_info
    /\ last' = [op |-> op, caller |-> caller, args |-> args, ok |-> r.ok, err |-> r.err,
                ret |-> None, internal_ret |-> r.ret, exists |-> state_exists,
                pre |-> Self, reached |-> r.self]
    /\ UNCHANGED deployer_vars

\* the call's outcome: its state changes are kept only when it did not panic.
\* Every public method modelled here returns the unit value; internal_ret is
\* the value of the internal function the method calls, and reached is the
\* state the call had built when it returned or panicked.
Commit(op, caller, args, r) ==
    LET post == IF r.ok THEN r.self ELSE Self IN
    /\ owner_id' = post.owner_id
    /\ token' = post.token
    /\ accounts' = post.accounts
    /\ set_info' = post.set_info
    /\ last' = [op |-> op, caller |-> caller, args |-> args, ok |-> r.ok, err |-> r.err,
                ret |-> None, internal_ret |-> r.ret, exists |-> state_exists,
                pre |-> Self, reached |-> r.self]
    /\ UNCHANGED deployer_vars

\* "Already initialized" is asserted before any argument is read, so one
\* argument list stands for all of them once the state exists
NewWith(ratio_inputs, fee_inputs, updatable_inputs) ==
    \E owner \in {"owner"},
       set_ratios \in (IF state_exists THEN {ValidRatios} ELSE ratio_inputs),
       fees \in (IF state_exists THEN {<<0, 0>>} ELSE fee_inputs),
       platform_id \in (IF state_exists THEN {"platform"} ELSE {"platform", "owner"}),
       updatable_fee \in (IF state_exists THEN {FALSE} ELSE updatable_inputs) :
        LET fee == [owner_fee |-> fees[1], platform_fee |-> fees[2],
                    platform_id |-> platform_id, updatable |-> updatable_fee]
            r == Contract_new(Self, state_exists, owner, set_ratios, fee)
        IN /\ Commit("new", owner, [set_ratios |-> set_ratios, fee |-> fee], r)
           /\ state_exists' = (state_exists \/ r.ok)
           /\ round_trip' = NoRoundTrip
           /\ UNCHANGED <<ncalls, ndeposits, transfers>>

NewFrom(ratio_inputs) == NewWith(ratio_inputs, FeeInputs, BOOLEAN)

New == NewFrom(RatioInputs)

\* the constructor on baskets of 1..MaxComponents components
NewOfSize == NewFrom(SizedRatioInputs)

Wrap ==
    \E caller \in AccountIds, amount \in WrapAmountInputs,
       attached_deposit \in AttachedDepositInputs, overflow_checks \in BOOLEAN :
        LET r == Contract_wrap(Self, state_exists, caller, attached_deposit, amount,
                               overflow_checks)
        IN /\ ncalls < MaxCalls
           /\ Commit("wrap", caller, [amount |-> amount, deposit |-> attached_deposit], r)
           /\ round_trip' =
                IF r.ok
                THEN [stage |-> "wrapped", caller |-> caller,
                      before |-> accounts.accounts[caller], gross |-> r.ret,
                      share |-> r.amount_wrap_caller, owner_inrcr |-> r.owner_inrcr,
                      platform_incr |-> r.platform_incr, fee |-> set_info.fee]
                ELSE NoRoundTrip
           /\ ncalls' = IF r.ok /\ r.self # Self THEN ncalls + 1 ELSE ncalls
           /\ UNCHANGED <<state_exists, ndeposits, transfers>>

Unwrap ==
    \E caller \in AccountIds, attached_deposit \in AttachedDepositInputs :
    \E amount \in UnwrapAmountInputs
                  \cup (IF caller \in DOMAIN token.accounts
                        THEN {token.accounts[caller]} ELSE {})
                  \cup (IF round_trip.stage = "wrapped" THEN {round_trip.share} ELSE {}) :
        LET r == Contract_unwrap(Self, state_exists, caller, attached_deposit, amount)
        IN /\ ncalls < MaxCalls
           /\ Commit("unwrap", caller, [amount |-> amount, deposit |-> attached_deposit], r)
           /\ round_trip' =
                IF r.ok /\ round_trip.stage = "wrapped" /\ round_trip.caller = caller
                   /\ round_trip.share = amount
                THEN [round_trip EXCEPT !.stage = "unwrapped"]
                ELSE NoRoundTrip
           /\ ncalls' = IF r.ok /\ r.self # Self THEN ncalls + 1 ELSE ncalls
           /\ UNCHANGED <<state_exists, ndeposits, transfers>>

UpdateOwnerFee ==
    \E caller \in AccountIds, new_fee \in NewFeeInputs,
       attached_deposit \in AttachedDepositInputs :
        LET r == Contract_update_owner_fee(Self, state_exists, caller, attached_deposit,
                                           new_fee)
        IN /\ ncalls < MaxCalls
           /\ Commit("update_owner_fee", caller,
                     [new_fee |-> new_fee, deposit |-> attached_deposit], r)
           /\ round_trip' = NoRoundTrip
           /\ ncalls' = IF r.ok /\ r.self # Self THEN ncalls + 1 ELSE ncalls
           /\ UNCHANGED <<state_exists, ndeposits, transfers>>

RegisterUser ==
    \E account \in Registrants :
        LET r == register_user_call(Self, state_exists, account)
        IN /\ Commit("register_user", account, <<>>, r)
           /\ round_trip' = NoRoundTrip
           /\ UNCHANGED <<state_exists, ncalls, ndeposits, transfers>>

Deposit ==
    \E account \in Depositors, token_id \in TokenIds, amount \in DepositAmountInputs :
        LET r == deposit_call(Self, state_exists, account, token_id, amount)
        IN /\ ndeposits < MaxDeposits
           /\ Commit("deposit", account, [token_id |-> token_id, amount |-> amount], r)
           /\ round_trip' = NoRoundTrip
           /\ ndeposits' = IF r.ok THEN ndeposits + 1 ELSE ndeposits
           /\ UNCHANGED <<state_exists, ncalls, transfers>>

Next == New \/ Wrap \/ Unwrap \/ UpdateOwnerFee \/ RegisterUser \/ Deposit

Spec == Init /\ [][Next]_vars

\* construction alone, over baskets of every size up to MaxComponents
StorageNext == NewOfSize

StorageSpec == Init /\ [][StorageNext]_vars

\* the last call on the deployer: promise is the promise the call
\* submitted, or the promise the callback ran for
DeployCommit(op, caller, args, promise, r) ==
    /\ deployer' = IF r.ok THEN r.self ELSE deployer
    /\ deploy_last' = [op |-> op, caller |-> caller, args |-> args, ok |-> r.ok,
                       err |-> r.err, promise |-> promise, ret |-> <<>>,
                       pre |-> deployer, npromises |-> Len(promises)]
    /\ UNCHANGED token_set_vars

\* the pending promises of account_id see that its record was written by
\* another call, and closed when closing
Touched(ps, account_id, closing) ==
    [i \in 1..Len(ps) |->
        IF ps[i].caller = account_id
        THEN [ps[i] EXCEPT !.touched = TRUE, !.closed = @ \/ closing]
        ELSE ps[i]]

\* mutant of RemoveAt: the callback's promise stays pending
RemoveAt_keep(seq, i) == seq

\* the sequence without its i-th element
RemoveAt(seq, i) == SubSeq(seq, 1, i - 1) \o SubSeq(seq, i + 1, Len(seq))

\* mutant of promise_ready: the callback is not scheduled on the promise
promise_ready_never(p) == FALSE

\* mutant of promise_ready: the callback does not wait for the promise
promise_ready_always(p) == TRUE

\* prom.then(callback): the callback is scheduled on the promise, and the
\* runtime calls it when the promise has a result
promise_ready(p) == p.promise_result # "NotReady"

StorageDepositFrom(callers, amounts, max_near) ==
    \E account_id \in callers, amount \in amounts :
        LET r == accounts_storage_deposit(deployer, account_id, amount)
            got == get_account(deployer, account_id)
        IN /\ (IF got.some THEN got.val.near_amount ELSE 0) + amount <= max_near
           /\ DeployCommit("accounts_storage_deposit", account_id, [amount |-> amount],
                           NoPromise, r)
           /\ promises' = IF r.ok THEN Touched(promises, account_id, FALSE)
                          ELSE promises
           /\ UNCHANGED <<nrequests, nunregisters, requests>>

StorageDeposit == StorageDepositFrom(Callers, StorageDepositInputs, MaxNear)

StorageUnregisterFrom(callers) ==
    \E account_id \in callers :
        LET r == accounts_storage_unregister(deployer, account_id)
        IN /\ nunregisters < MaxUnregisters
           /\ get_account(deployer, account_id).some
           /\ DeployCommit("accounts_storage_unregister", account_id, <<>>, NoPromise, r)
           /\ promises' = IF r.ok THEN Touched(promises, account_id, TRUE)
                          ELSE promises
           /\ nunregisters' = IF r.ok THEN nunregisters + 1 ELSE nunregisters
           /\ UNCHANGED <<nrequests, requests>>

StorageUnregister == StorageUnregisterFrom(Callers)

\* the promise of a call that returned is submitted.  pre is the caller's
\* account before the call; closed is inherited from the caller's pending
\* promises, whose callbacks will run on the record this call writes.  The
\* call panics before it reads the prefix when the caller has no account or
\* too little NEAR, so one prefix stands for all of them then.  When the
\* history is tracked, requests gets the call's entry: overlapped tells that
\* an earlier request of the caller was pending when this one was made.
DeployContractCodeFrom(callers, max_requests, tracked) ==
    \E caller \in callers, attached_deposit \in AttachedDepositInputs :
    \E contract_account_prefix \in
           (IF deploy_contract_code(deployer, caller, attached_deposit, "a").ok
            THEN PrefixInputs ELSE {"a"}) :
        LET r == deploy_contract_code(deployer, caller, attached_deposit,
                                      contract_account_prefix)
            promise ==
                IF r.ok
                THEN [id |-> nrequests + 1,
                      caller |-> r.promise.caller,
                      contract_id |-> r.promise.contract_id,
                      promise_result |-> "NotReady",
                      pre |-> get_account(deployer, caller),
                      touched |-> FALSE,
                      closed |-> \E j \in 1..Len(promises) :
                                    promises[j].caller = caller /\ promises[j].closed]
                ELSE NoPromise
            request ==
                [caller |-> caller, contract_id |-> promise.contract_id,
                 status |-> "Pending", runs |-> 0, refunds |-> 0,
                 overlapped |-> \E j \in 1..Len(promises) : promises[j].caller = caller,
                 closed |-> FALSE]
        IN /\ (nrequests < max_requests \/ ~r.ok)
           /\ DeployCommit("deploy_contract_code", caller,
                           [contract_account_prefix |-> contract_account_prefix,
                            deposit |-> attached_deposit], promise, r)
           /\ promises' = IF r.ok
                          THEN Append(Touched(promises, caller, FALSE), promise)
                          ELSE promises
           /\ nrequests' = IF r.ok THEN nrequests + 1 ELSE nrequests
           /\ requests' = IF tracked /\ r.ok THEN Append(requests, request)
                          ELSE requests
           /\ UNCHANGED nunregisters

DeployContractCode == DeployContractCodeFrom(Callers, MaxRequests, FALSE)

\* the runtime executes the promise's actions on the new account: all of
\* them, or none
PromiseSettles ==
    \E i \in 1..Len(promises), promise_result \in {"Successful", "Failed"} :
        /\ promises[i].promise_result = "NotReady"
        /\ promises' = [promises EXCEPT ![i].promise_result = promise_result]
        /\ UNCHANGED <<deployer, deploy_last, nrequests, nunregisters, requests>>
        /\ UNCHANGED token_set_vars

\* what a run of the callback made of its request: it panicked, it left the
\* state alone (after a chain that succeeded, or one that failed), or it
\* wrote the caller's record
Outcome(p, r) ==
    IF ~r.ok THEN "Panicked"
    ELSE IF r.self # deployer THEN "Compensated"
    ELSE IF p.promise_result = "Successful" THEN "Confirmed"
    ELSE "Skipped"

\* the runtime calls the callback of a promise that has its result, once:
\* the promise is pending no more, whether the callback returns or panics
ResolveContractDeployFrom(tracked) ==
    \E i \in 1..Len(promises), overflow_checks \in BOOLEAN :
        LET p == promises[i]
            r == resolve_contract_deploy(deployer, p.caller, p.contract_id,
                                         p.promise_result, overflow_checks)
            rest == RemoveAt(promises, i)
            refunded == r.ok /\ get_account(r.self, p.caller).some
                        /\ get_account(deployer, p.caller).some
                        /\ get_account(r.self, p.caller).val.near_used_for_storage
                             < get_account(deployer, p.caller).val.near_used_for_storage
        IN /\ promise_ready(p)
           /\ DeployCommit("resolve_contract_deploy", p.caller,
                           [contract_id |-> p.contract_id,
                            promise_result |-> p.promise_result], p, r)
           /\ promises' = IF r.ok /\ r.self # deployer
                          THEN Touched(rest, p.caller, FALSE)
                          ELSE rest
           /\ requests' = IF tracked
                          THEN [requests EXCEPT ![p.id] =
                                   [@ EXCEPT !.status = Outcome(p, r),
                                             !.runs = @ + 1,
                                             !.refunds = IF refunded THEN @ + 1 ELSE @,
                                             !.closed = p.closed]]
                          ELSE requests
           /\ UNCHANGED <<nrequests, nunregisters>>

ResolveContractDeploy == ResolveContractDeployFrom(FALSE)

\* a view call of get_all_sets: ret is what it returns
GetAllSets ==
    /\ deploy_last' = [op |-> "get_all_sets", caller |-> "", args |-> <<>>, ok |-> TRUE,
                       err |-> "", promise |-> NoPromise, ret |-> get_all_sets(deployer),
                       pre |-> deployer, npromises |-> Len(promises)]
    /\ UNCHANGED <<deployer, promises, nrequests, nunregisters, requests>>
    /\ UNCHANGED token_set_vars

DeployNext ==
    \/ StorageDeposit
    \/ StorageUnregister
    \/ DeployContractCode
    \/ PromiseSettles
    \/ ResolveContractDeploy
    \/ GetAllSets

DeploySpec == Init /\ [][DeployNext]_vars

\* one caller, with the history of its requests
SagaStorageDeposit == StorageDepositFrom(SagaCallers, StorageDepositInputs, MaxNear)
SagaStorageUnregister == StorageUnregisterFrom(SagaCallers)
SagaDeployContractCode == DeployContractCodeFrom(SagaCallers, MaxRequests, TRUE)
SagaResolveContractDeploy == ResolveContractDeployFrom(TRUE)

SagaNext ==
    \/ SagaStorageDeposit
    \/ SagaStorageUnregister
    \/ SagaDeployContractCode
    \/ PromiseSettles
    \/ SagaResolveContractDeploy

SagaSpec == Init /\ [][SagaNext]_vars

\* one caller, without the history.  The runtime executes every promise it
\* accepted, and calls the callback of every promise that has its result.
FairDeployContractCode == DeployContractCodeFrom(SagaCallers, MaxRequests, FALSE)

FairNext ==
    \/ SagaStorageDeposit
    \/ SagaStorageUnregister
    \/ FairDeployContractCode
    \/ PromiseSettles
    \/ ResolveContractDeploy

FairSpec ==
    Init /\ [][FairNext]_vars /\ WF_vars(PromiseSettles) /\ WF_vars(ResolveContractDeploy)

\* one caller whose deposit covers MaxListRequests requests, and whose
\* record is never closed
ListStorageDeposit == StorageDepositFrom(SagaCallers, ListDepositInputs, MaxListNear)
ListDeployContractCode == DeployContractCodeFrom(SagaCallers, MaxListRequests, FALSE)

ListNext ==
    \/ ListStorageDeposit
    \/ ListDeployContractCode
    \/ PromiseSettles
    \/ ResolveContractDeploy

ListSpec == Init /\ [][ListNext]_vars

----------------------------------------------------------------------------
(* The derivative token's transfers, burns and account closes *)

\* the constructor on the valid basket and on baskets with a zero ratio
LedgerNew == NewWith(LedgerRatioInputs, LedgerFeeInputs, {TRUE})

\* ft_transfer_call: the transfer is made, and its callback is pending
FtTransferCall ==
    \E sender_id \in TransferSenders, receiver_id \in TransferReceivers,
       attached_deposit \in AttachedDepositInputs :
    \E amount \in {1} \cup (IF sender_id \in DOMAIN token.accounts
                            THEN {token.accounts[sender_id]} ELSE {}) :
        LET r == Contract_ft_transfer_call(Self, state_exists, sender_id,
                                           attached_deposit, receiver_id, amount)
        IN /\ ncalls < MaxCalls
           /\ Commit("ft_transfer_call", sender_id,
                     [receiver_id |-> receiver_id, amount |-> amount], r)
           /\ transfers' =
                IF r.ok
                THEN Append(transfers, [sender_id |-> sender_id,
                                        receiver_id |-> receiver_id, amount |-> amount])
                ELSE transfers
           /\ round_trip' = NoRoundTrip
           /\ ncalls' = IF r.ok THEN ncalls + 1 ELSE ncalls
           /\ UNCHANGED <<state_exists, ndeposits>>

\* ft_resolve_transfer, the callback of a pending ft_transfer_call: the
\* receiver's ft_on_transfer returned the whole amount, nothing, or failed
FtResolveTransfer ==
    \E i \in 1..Len(transfers) :
    \E returned \in {None, Some(0), Some(transfers[i].amount)} :
        LET t == transfers[i]
            r == Contract_ft_resolve_transfer(Self, t.sender_id, t.receiver_id,
                                              t.amount, returned)
        IN /\ Commit("ft_resolve_transfer", t.sender_id,
                     [receiver_id |-> t.receiver_id, amount |-> t.amount,
                      returned |-> returned], r)
           /\ transfers' = RemoveAt(transfers, i)
           /\ round_trip' = NoRoundTrip
           /\ UNCHANGED <<state_exists, ncalls, ndeposits>>

\* storage_unregister on the derivative token
TokenStorageUnregister ==
    \E account_id \in CloseAccounts, force \in ForceInputs,
       attached_deposit \in AttachedDepositInputs :
        LET r == Contract_storage_unregister(Self, state_exists, account_id,
                                             attached_deposit, force)
        IN /\ Commit("storage_unregister", account_id, [force |-> force], r)
           /\ round_trip' = NoRoundTrip
           /\ UNCHANGED <<state_exists, ncalls, ndeposits, transfers>>

LedgerNext ==
    \/ LedgerNew
    \/ RegisterUser
    \/ Deposit
    \/ Wrap
    \/ Unwrap
    \/ UpdateOwnerFee
    \/ FtTransferCall
    \/ FtResolveTransfer
    \/ TokenStorageUnregister

LedgerSpec == Init /\ [][LedgerNext]_vars

----------------------------------------------------------------------------
(* The claims.  The definitions below restate the specification's formulas  *)
(* independently of the operators above, over the state before the last     *)
(* call (last.pre) and the state after it.                                  *)

RECURSIVE SumOver(_, _)
SumOver(f, S) ==
    IF S = {} THEN 0
    ELSE LET x == CHOOSE y \in S : TRUE IN f[x] + SumOver(f, S \ {x})

SumBalances(tok) == SumOver(tok.accounts, DOMAIN tok.accounts)

Min(S) == CHOOSE x \in S : \A y \in S : x <= y

Pre == last.pre
PreFee == Pre.set_info.fee
PreRatios == Pre.set_info.ratios

BalanceOf(self, account, token_id) ==
    IF account \in DOMAIN self.accounts.accounts
    THEN self.accounts.accounts[account][token_id] ELSE 0

DerivativeOf(self, account) ==
    IF account \in DOMAIN self.token.accounts THEN self.token.accounts[account] ELSE 0

\* the call ran on an initialised basket whose ratios are all positive
OnBasket == last.exists /\ \A i \in 1..Len(PreRatios) : PreRatios[i].ratio > 0

\* maxWrappable of the caller in the state before the call
MaxWrappable ==
    Min({ BalanceOf(Pre, last.caller, PreRatios[i].token_id) \div PreRatios[i].ratio :
            i \in 1..Len(PreRatios) })

\* the gross amount A of the last wrap
GrossAmount ==
    IF last.args.amount.some THEN last.args.amount.val ELSE MaxWrappable

OwnerIncrement == (GrossAmount * PreFee.owner_fee) \div FEE_DENOMINATOR
PlatformIncrement == (GrossAmount * PreFee.platform_fee) \div FEE_DENOMINATOR
CallerIncrement == GrossAmount - OwnerIncrement - PlatformIncrement

WrapSucceeded == last.op = "wrap" /\ last.ok
UnwrapSucceeded == last.op = "unwrap" /\ last.ok

\* the contract state is the one before the last call
StateUnchanged == Self = Pre /\ state_exists = last.exists

\* C1: a successful wrap of gross amount A under fees whose sum is at most
\* DENOM credits derivative units that sum to exactly A: the sum of all
\* derivative balances and the total supply both grow by exactly A.
C1_WrapCreditsSumToAmount ==
    (WrapSucceeded /\ PreFee.owner_fee + PreFee.platform_fee <= FEE_DENOMINATOR) =>
        /\ SumBalances(token) = SumBalances(Pre.token) + GrossAmount
        /\ token.total_supply = Pre.token.total_supply + GrossAmount

\* a wrap in which both fee divisions round
C1_Witness ==
    /\ WrapSucceeded
    /\ PreFee.owner_fee + PreFee.platform_fee <= FEE_DENOMINATOR
    /\ (GrossAmount * PreFee.owner_fee) % FEE_DENOMINATOR # 0
    /\ (GrossAmount * PreFee.platform_fee) % FEE_DENOMINATOR # 0
    /\ OwnerIncrement > 0 /\ PlatformIncrement > 0

\* C2: a successful wrap of gross amount A credits the basket owner with
\* floor(A * ownerFee / DENOM), the platform beneficiary with
\* floor(A * platformFee / DENOM) and the caller with A minus the two; with a
\* 1% and a 4% fee the recipients get A/100 and A/25 (floored).
C2_WrapCreditsEachParty ==
    WrapSucceeded =>
        /\ DOMAIN token.accounts = DOMAIN Pre.token.accounts
        /\ \A a \in DOMAIN token.accounts :
              token.accounts[a] =
                  Pre.token.accounts[a]
                  + (IF a = last.caller THEN CallerIncrement ELSE 0)
                  + (IF a = Pre.owner_id THEN OwnerIncrement ELSE 0)
                  + (IF a = PreFee.platform_id THEN PlatformIncrement ELSE 0)
        /\ (/\ PreFee.owner_fee = 1 /\ PreFee.platform_fee = 4
            /\ PreFee.platform_id # Pre.owner_id
            /\ last.caller \notin {Pre.owner_id, PreFee.platform_id}) =>
              /\ token.accounts[Pre.owner_id] =
                     Pre.token.accounts[Pre.owner_id] + GrossAmount \div 100
              /\ token.accounts[PreFee.platform_id] =
                     Pre.token.accounts[PreFee.platform_id] + GrossAmount \div 25
              /\ token.accounts[last.caller] =
                     Pre.token.accounts[last.caller]
                     + (GrossAmount - GrossAmount \div 100 - GrossAmount \div 25)

\* wrap(250) under a 1% owner fee and a 4% platform fee: 2, 10 and 238
C2_Witness ==
    /\ WrapSucceeded
    /\ last.args.amount = Some(250)
    /\ PreFee.owner_fee = 1 /\ PreFee.platform_fee = 4
    /\ last.caller = "alice" /\ PreFee.platform_id = "platform"
    /\ token.accounts["owner"] = Pre.token.accounts["owner"] + 2
    /\ token.accounts["platform"] = Pre.token.accounts["platform"] + 10
    /\ token.accounts["alice"] = Pre.token.accounts["alice"] + 238

\* C3: wrap with no requested amount wraps exactly maxWrappable, the minimum
\* over the components of floor(balance / ratio); for ratios [1,2], zero fees
\* and balances (1000, 1000) it wraps 500, debits 500 and 1000 and credits the
\* caller 500 derivative units.
C3_WrapNoneWrapsMax ==
    (WrapSucceeded /\ ~last.args.amount.some /\ OnBasket) =>
        /\ last.internal_ret = MaxWrappable
        /\ token.total_supply = Pre.token.total_supply + MaxWrappable
        /\ \A i \in 1..Len(PreRatios) :
              BalanceOf(Self, last.caller, PreRatios[i].token_id) =
                  BalanceOf(Pre, last.caller, PreRatios[i].token_id)
                  - MaxWrappable * PreRatios[i].ratio
        /\ (/\ PreRatios = <<TokenWithRatio("t0", 1), TokenWithRatio("t1", 2)>>
            /\ PreFee.owner_fee = 0 /\ PreFee.platform_fee = 0
            /\ BalanceOf(Pre, last.caller, "t0") = 1000
            /\ BalanceOf(Pre, last.caller, "t1") = 1000) =>
              /\ last.internal_ret = 500
              /\ BalanceOf(Self, last.caller, "t0") = 500
              /\ BalanceOf(Self, last.caller, "t1") = 0
              /\ token.accounts[last.caller] = Pre.token.accounts[last.caller] + 500

\* the scenario of the specification has run
C3_Witness ==
    /\ WrapSucceeded /\ ~last.args.amount.some
    /\ PreRatios = <<TokenWithRatio("t0", 1), TokenWithRatio("t1", 2)>>
    /\ PreFee.owner_fee = 0 /\ PreFee.platform_fee = 0
    /\ BalanceOf(Pre, last.caller, "t0") = 1000
    /\ BalanceOf(Pre, last.caller, "t1") = 1000
    /\ BalanceOf(Self, last.caller, "t0") = 500
    /\ token.total_supply = Pre.token.total_supply + 500

WrapTooMuch == "Maximum amount that can be wrapped is exceeded"

\* C4: wrap with a requested amount above maxWrappable, computed from the
\* caller's balances at the call, fails on that check and changes no
\* per-asset balance, no derivative balance and not the total supply.
C4_WrapAboveMaxFails ==
    (/\ last.op = "wrap" /\ OnBasket /\ last.args.deposit = 1
     /\ last.args.amount.some /\ last.args.amount.val > MaxWrappable) =>
        /\ ~last.ok
        /\ last.err = WrapTooMuch
        /\ StateUnchanged

\* a request above a positive maximum was refused
C4_Witness ==
    /\ last.op = "wrap" /\ OnBasket
    /\ last.args.amount.some /\ last.args.amount.val > MaxWrappable
    /\ MaxWrappable > 0
    /\ ~last.ok

\* C5: a successful wrap of A debits the caller's balance of every component
\* by exactly A * ratio, which the balance covers; and no per-asset balance is
\* ever negative, whatever wraps and unwraps have run.
C5_WrapDebitsComponents ==
    /\ (WrapSucceeded /\ OnBasket) =>
          \A i \in 1..Len(PreRatios) :
              /\ GrossAmount * PreRatios[i].ratio
                     <= BalanceOf(Pre, last.caller, PreRatios[i].token_id)
              /\ BalanceOf(Self, last.caller, PreRatios[i].token_id) =
                     BalanceOf(Pre, last.caller, PreRatios[i].token_id)
                     - GrossAmount * PreRatios[i].ratio
    /\ \A a \in DOMAIN accounts.accounts : \A t \in TokenIds :
          accounts.accounts[a][t] >= 0

\* a wrap of part of the maximum, debiting a component whose ratio is above 1
C5_Witness ==
    /\ WrapSucceeded /\ OnBasket
    /\ 0 < GrossAmount /\ GrossAmount < MaxWrappable
    /\ \E i \in 1..Len(PreRatios) :
          /\ PreRatios[i].ratio > 1
          /\ BalanceOf(Self, last.caller, PreRatios[i].token_id)
                 < BalanceOf(Pre, last.caller, PreRatios[i].token_id)

\* the fee increments of the wrap recorded in round_trip
TripOwnerIncrement == (round_trip.gross * round_trip.fee.owner_fee) \div FEE_DENOMINATOR
TripPlatformIncrement ==
    (round_trip.gross * round_trip.fee.platform_fee) \div FEE_DENOMINATOR
TripDone == round_trip.stage = "unwrapped"

\* C6: a successful unwrap of A takes exactly A from the caller's derivative
\* balance and from the total supply, takes no fee, and credits the caller's
\* balance of every component by exactly A * ratio; so after wrap(A) and then
\* unwrap(callerIncrement) each component balance is its value before the wrap
\* minus (ownerIncrement + platformIncrement) * ratio.
C6_UnwrapCreditsComponents ==
    /\ (UnwrapSucceeded /\ OnBasket) =>
          /\ token.accounts[last.caller] =
                 Pre.token.accounts[last.caller] - last.args.amount
          /\ token.total_supply = Pre.token.total_supply - last.args.amount
          /\ \A a \in DOMAIN token.accounts \ {last.caller} :
                 token.accounts[a] = Pre.token.accounts[a]
          /\ \A i \in 1..Len(PreRatios) :
                 BalanceOf(Self, last.caller, PreRatios[i].token_id) =
                     BalanceOf(Pre, last.caller, PreRatios[i].token_id)
                     + last.args.amount * PreRatios[i].ratio
    /\ TripDone =>
          \A i \in 1..Len(set_info.ratios) :
              BalanceOf(Self, round_trip.caller, set_info.ratios[i].token_id) =
                  round_trip.before[set_info.ratios[i].token_id]
                  - (TripOwnerIncrement + TripPlatformIncrement)
                        * set_info.ratios[i].ratio

\* a wrap that paid both fees, followed by the unwrap of the caller's share
C6_Witness ==
    /\ TripDone /\ UnwrapSucceeded
    /\ TripOwnerIncrement > 0 /\ TripPlatformIncrement > 0
    /\ last.args.amount > 0
    /\ last.args.amount = round_trip.gross - TripOwnerIncrement - TripPlatformIncrement

\* C7: unwrap of more than the caller's derivative balance fails and changes
\* no derivative balance, not the total supply and no per-asset balance.
C7_UnwrapAboveBalanceFails ==
    (/\ last.op = "unwrap" /\ last.exists
     /\ last.args.amount > DerivativeOf(Pre, last.caller)) =>
        /\ ~last.ok
        /\ StateUnchanged
        /\ (last.args.deposit = 1 /\ last.caller \in DOMAIN Pre.token.accounts) =>
               last.err = "The account doesn't have enough balance"

\* a holder of derivative units asked for more than it holds
C7_Witness ==
    /\ last.op = "unwrap" /\ last.exists
    /\ DerivativeOf(Pre, last.caller) > 0
    /\ last.args.amount > DerivativeOf(Pre, last.caller)
    /\ ~last.ok

\* every component balance of the round trip's caller is at most its value
\* before the wrap, and not negative
TripWithinBounds ==
    \A i \in 1..Len(set_info.ratios) :
        /\ BalanceOf(Self, round_trip.caller, set_info.ratios[i].token_id)
               <= round_trip.before[set_info.ratios[i].token_id]
        /\ BalanceOf(Self, round_trip.caller, set_info.ratios[i].token_id) >= 0

TripRestored(i) ==
    BalanceOf(Self, round_trip.caller, set_info.ratios[i].token_id)
        = round_trip.before[set_info.ratios[i].token_id]

\* C8 as stated, for a positive amount: after a wrap and the unwrap of the caller's share every
\* component balance is at most its value before the wrap and not negative,
\* and it equals that value only when both fees are zero.
C8_RoundTripEqualOnlyIfZeroFees ==
    (TripDone /\ round_trip.gross > 0) =>
        /\ TripWithinBounds
        /\ \A i \in 1..Len(set_info.ratios) :
              TripRestored(i) =>
                  (round_trip.fee.owner_fee = 0 /\ round_trip.fee.platform_fee = 0)

\* C8 amended: after a wrap and the unwrap of the caller's share every
\* component balance is at most its value before the wrap and not negative,
\* and it equals that value exactly when both fee increments
\* floor(A * fee / DENOM) are zero.
C8_RoundTripEqualIffNoIncrement ==
    (TripDone /\ \A i \in 1..Len(set_info.ratios) : set_info.ratios[i].ratio > 0) =>
        /\ TripWithinBounds
        /\ \A i \in 1..Len(set_info.ratios) :
              TripRestored(i) <=> (TripOwnerIncrement = 0 /\ TripPlatformIncrement = 0)

\* a round trip of a positive amount under non-zero fees that restores the
\* balances, and one that does not
C8_Witness ==
    /\ TripDone
    /\ round_trip.gross > 0
    /\ round_trip.fee.owner_fee > 0 /\ round_trip.fee.platform_fee > 0
    /\ TripOwnerIncrement = 0 /\ TripPlatformIncrement = 0
    /\ \A i \in 1..Len(set_info.ratios) : TripRestored(i)

\* C9: in every state of an initialised engine the fee policy is valid:
\* ownerFee <= DENOM, platformFee <= DENOM and their sum <= DENOM.
C9_FeePolicyValid ==
    state_exists =>
        /\ set_info.fee.owner_fee <= FEE_DENOMINATOR
        /\ set_info.fee.platform_fee <= FEE_DENOMINATOR
        /\ set_info.fee.owner_fee + set_info.fee.platform_fee <= FEE_DENOMINATOR

HasRepeatedId(set_ratios) ==
    \E i, j \in 1..Len(set_ratios) : i # j /\ set_ratios[i].token_id = set_ratios[j].token_id

\* C10: constructing a basket whose component list repeats an asset id,
\* whatever the ratios, fails with the duplicate-asset error, and the engine
\* stays uninitialised with no state retained.
C10_DuplicateAssetRejected ==
    (last.op = "new" /\ ~last.exists /\ HasRepeatedId(last.args.set_ratios)) =>
        /\ ~last.ok
        /\ last.err = "Each token in the ratio must be unique"
        /\ ~state_exists
        /\ owner_id = "" /\ token = EmptyToken /\ accounts = EmptyAccounts
        /\ set_info = EmptySetInfo

\* [("t0",1),("t0",2)] with a valid fee policy was rejected
C10_Witness ==
    /\ last.op = "new" /\ ~last.exists /\ ~last.ok
    /\ last.args.set_ratios = <<TokenWithRatio("t0", 1), TokenWithRatio("t0", 2)>>
    /\ last.args.fee.owner_fee + last.args.fee.platform_fee <= FEE_DENOMINATOR
    /\ ~state_exists

NotUpdatable ==
    "Cannot update a token set fee unless the fee property is marked initially updatable"

\* C11: construction fails if the component list is empty, if ownerFee > DENOM,
\* if platformFee > DENOM or if ownerFee + platformFee > DENOM, and nothing is
\* initialised; it succeeds for a non-empty duplicate-free list when both fees
\* and their sum are at most DENOM, the sum DENOM included, and records the
\* list and the fee policy.
C11_ConstructionValidated ==
    (last.op = "new" /\ ~last.exists) =>
        LET set_ratios == last.args.set_ratios
            fee == last.args.fee
            rejected == \/ Len(set_ratios) = 0
                        \/ fee.owner_fee > FEE_DENOMINATOR
                        \/ fee.platform_fee > FEE_DENOMINATOR
                        \/ fee.owner_fee + fee.platform_fee > FEE_DENOMINATOR
        IN /\ rejected => (~last.ok /\ ~state_exists /\ StateUnchanged)
           /\ Len(set_ratios) = 0 => last.err = "Expected at least one token in the set"
           /\ (~rejected /\ ~HasRepeatedId(set_ratios)) =>
                  /\ last.ok /\ state_exists
                  /\ set_info.fee = fee
                  /\ Len(set_info.ratios) = Len(set_ratios)
                  /\ \A i \in 1..Len(set_ratios) :
                         /\ set_info.ratios[i].token_id = set_ratios[i].token_id
                         /\ set_info.ratios[i].ratio = set_ratios[i].ratio

\* a basket whose fees sum to exactly DENOM was constructed
C11_Witness ==
    /\ last.op = "new" /\ ~last.exists /\ last.ok /\ state_exists
    /\ last.args.fee.owner_fee > 0 /\ last.args.fee.platform_fee > 0
    /\ last.args.fee.owner_fee + last.args.fee.platform_fee = FEE_DENOMINATOR
    /\ set_info.fee = last.args.fee

\* C12: updateOwnerFee fails when the caller is not the basket owner, and
\* fails when the fee policy is not updatable; in both cases ownerFee and
\* every other part of the engine state are what they were before the call.
C12_UpdateOwnerFeeRefused ==
    (last.op = "update_owner_fee" /\ last.exists) =>
        /\ (last.caller # Pre.owner_id \/ ~PreFee.updatable) =>
               /\ ~last.ok
               /\ set_info.fee.owner_fee = PreFee.owner_fee
               /\ StateUnchanged
        /\ (last.args.deposit = 1 /\ last.caller # Pre.owner_id) =>
               last.err = "Only the owner can update the fee"
        /\ (last.args.deposit = 1 /\ last.caller = Pre.owner_id /\ ~PreFee.updatable) =>
               last.err = NotUpdatable

\* an account other than the owner asked for a different fee on an updatable basket
C12_Witness ==
    /\ last.op = "update_owner_fee" /\ last.exists
    /\ last.caller # Pre.owner_id /\ PreFee.updatable
    /\ last.args.new_fee # PreFee.owner_fee
    /\ ~last.ok
    /\ set_info.fee.owner_fee = PreFee.owner_fee

\* C13: updateOwnerFee(newFee) by the owner of an updatable basket succeeds
\* for any newFee, with no range or sum validation, sets ownerFee to newFee
\* and leaves platformFee, the platform beneficiary, the updatable flag, the
\* components and all ledger balances unchanged.
C13_UpdateOwnerFeeFrame ==
    (last.op = "update_owner_fee" /\ last.exists) =>
        /\ (last.caller = Pre.owner_id /\ PreFee.updatable /\ last.args.deposit = 1) =>
               last.ok
        /\ last.ok =>
               /\ set_info.fee.owner_fee = last.args.new_fee
               /\ set_info.fee.platform_fee = PreFee.platform_fee
               /\ set_info.fee.platform_id = PreFee.platform_id
               /\ set_info.fee.updatable = PreFee.updatable
               /\ set_info.ratios = PreRatios
               /\ token = Pre.token
               /\ accounts = Pre.accounts
               /\ owner_id = Pre.owner_id

\* the owner set a fee above DENOM
C13_Witness ==
    /\ last.op = "update_owner_fee" /\ last.ok
    /\ last.args.new_fee > FEE_DENOMINATOR
    /\ set_info.fee.owner_fee = last.args.new_fee
    /\ PreFee.owner_fee # last.args.new_fee

\* the minimum account storage of a basket of the first n ids, as the
\* constructor sets it
MinStorageOf(n) ==
    LET ids == <<"t0", "t1", "t2", "t3">>
        r == Contract_new(Self, FALSE, "owner",
                          [i \in 1..n |-> TokenWithRatio(ids[i], 1)],
                          [EmptyFee EXCEPT !.platform_id = "platform"])
    IN r.self.accounts.default_min_storage_bal

\* C14: the minimum account storage set at construction is baseMinimum +
\* n * perAssetBalanceStorageCost for a basket of n components, so it is
\* affine in n: f(2) - f(1) = f(3) - f(2).
C14_MinStorageAffine ==
    /\ (last.op = "new" /\ last.ok) =>
          accounts.default_min_storage_bal =
              Accounts_new.default_min_storage_bal
              + Len(set_info.ratios) * get_storage_cost_for_one_balance(Self)
    /\ MinStorageOf(2) - MinStorageOf(1) = MinStorageOf(3) - MinStorageOf(2)
    /\ \A n \in 1..(MaxComponents - 1) :
          MinStorageOf(n + 1) - MinStorageOf(n) = get_storage_cost_for_one_balance(Self)

\* a basket of three components was constructed, its minimum above that of
\* two components
C14_Witness ==
    /\ last.op = "new" /\ last.ok /\ state_exists
    /\ Len(set_info.ratios) = 3
    /\ accounts.default_min_storage_bal = MinStorageOf(3)
    /\ accounts.default_min_storage_bal > MinStorageOf(2)

\* C15: the ledger mutations of one wrap call are atomic: after the call
\* either the three derivative credits and every component debit are all
\* applied, or, when any step of the call failed, the state is the one before
\* the call, whatever the call had applied when it failed.
C15_WrapAtomic ==
    (last.op = "wrap" /\ OnBasket) =>
        IF last.ok
        THEN /\ \A a \in DOMAIN token.accounts :
                   token.accounts[a] =
                       Pre.token.accounts[a]
                       + (IF a = last.caller THEN CallerIncrement ELSE 0)
                       + (IF a = Pre.owner_id THEN OwnerIncrement ELSE 0)
                       + (IF a = PreFee.platform_id THEN PlatformIncrement ELSE 0)
             /\ \A i \in 1..Len(PreRatios) :
                   BalanceOf(Self, last.caller, PreRatios[i].token_id) =
                       BalanceOf(Pre, last.caller, PreRatios[i].token_id)
                       - GrossAmount * PreRatios[i].ratio
        ELSE StateUnchanged

\* a wrap failed after it had credited derivative units, and nothing of it
\* is left
C15_Witness ==
    /\ last.op = "wrap" /\ OnBasket /\ ~last.ok
    /\ last.reached.token # Pre.token
    /\ SumBalances(last.reached.token) > SumBalances(Pre.token)
    /\ StateUnchanged

\* C16: wrap returns to its caller the gross amount wrapped, not the
\* caller's net share after fees.
C16_WrapReturnsGross ==
    WrapSucceeded => last.ret = Some(GrossAmount)

\* the last call was a wrap that evaluated amount_wrap - owner_inrcr -
\* platform_incr: it returned, or panicked in the subtraction, or panicked
\* after it had credited the caller
WrapSubtracted ==
    /\ last.op = "wrap" /\ OnBasket
    /\ \/ last.ok
       \/ last.err = "attempt to subtract with overflow"
       \/ last.reached # Pre

\* C22: in every wrap reachable after any sequence of operations, successful
\* updateOwnerFee calls included, callerIncrement = amount - ownerIncrement -
\* platformIncrement is at least 0: the subtraction never underflows.
C22_CallerIncrementNeverUnderflows ==
    WrapSubtracted => CallerIncrement >= 0

----------------------------------------------------------------------------
(* The claims on the deployer: escrow is near_used_for_storage, the         *)
(* available balance is near_amount less the escrow, the instance list is   *)
(* deployed_contracts, depositPerInstance is deposit_for_contract.          *)

DeployPre == deploy_last.pre
DepositPerInstance == Contract_default.deposit_for_contract

Registered(self, account_id) ==
    \E i \in 1..Len(self.accounts) : self.accounts[i].account_id = account_id

RecordOf(self, account_id) ==
    self.accounts[CHOOSE i \in 1..Len(self.accounts) :
                      self.accounts[i].account_id = account_id]

EscrowOf(self, account_id) ==
    IF Registered(self, account_id)
    THEN RecordOf(self, account_id).near_used_for_storage ELSE 0

InstancesOf(self, account_id) ==
    IF Registered(self, account_id)
    THEN RecordOf(self, account_id).info.deployed_contracts ELSE <<>>

AvailableOf(self, account_id) ==
    RecordOf(self, account_id).near_amount
        - RecordOf(self, account_id).near_used_for_storage

Range(seq) == { seq[i] : i \in 1..Len(seq) }

\* listProvisionedInstances
ListProvisionedInstances == Range(get_all_sets(deployer))

RequestCalled == deploy_last.op = "deploy_contract_code"
ContinuationRan == deploy_last.op = "resolve_contract_deploy"

\* C17: requestProvisioning fails when the caller's available balance is
\* less than depositPerInstance, and the failed call changes neither the
\* caller's escrow nor its instance list, nor any other record, and submits
\* no action chain.
C17_RequestRefusedBelowDeposit ==
    RequestCalled =>
        /\ (/\ Registered(DeployPre, deploy_last.caller)
            /\ AvailableOf(DeployPre, deploy_last.caller) < DepositPerInstance) =>
               /\ ~deploy_last.ok
               /\ deploy_last.args.deposit = 1 =>
                      deploy_last.err =
                          "Expected at least 10000000000000000000000000 Yocto Near"
        /\ ~deploy_last.ok =>
               /\ deployer = DeployPre
               /\ EscrowOf(deployer, deploy_last.caller)
                      = EscrowOf(DeployPre, deploy_last.caller)
               /\ InstancesOf(deployer, deploy_last.caller)
                      = InstancesOf(DeployPre, deploy_last.caller)
               /\ deploy_last.promise = NoPromise
               /\ Len(promises) = deploy_last.npromises

\* an account whose deposit covers depositPerInstance, but all of it in
\* escrow, was refused
C17_Witness ==
    /\ RequestCalled /\ ~deploy_last.ok
    /\ Registered(DeployPre, deploy_last.caller)
    /\ RecordOf(DeployPre, deploy_last.caller).near_amount >= DepositPerInstance
    /\ EscrowOf(DeployPre, deploy_last.caller) > 0
    /\ AvailableOf(DeployPre, deploy_last.caller) < DepositPerInstance
    /\ deployer = DeployPre

\* what a request that returned has written: the escrow up by
\* depositPerInstance and the instance id appended, in the same call
RequestCommitted ==
    (RequestCalled /\ deploy_last.ok) =>
        /\ Registered(deployer, deploy_last.caller)
        /\ EscrowOf(deployer, deploy_last.caller)
               = EscrowOf(DeployPre, deploy_last.caller) + DepositPerInstance
        /\ InstancesOf(deployer, deploy_last.caller)
               = Append(InstancesOf(DeployPre, deploy_last.caller),
                        deploy_last.promise.contract_id)
        /\ Len(promises) = deploy_last.npromises + 1

\* the id of the pending promise i is listed and its deposit is in escrow
PendingListed(i) ==
    /\ promises[i].contract_id \in ListProvisionedInstances
    /\ promises[i].contract_id \in Range(InstancesOf(deployer, promises[i].caller))
    /\ EscrowOf(deployer, promises[i].caller)
           >= DepositPerInstance
                  * Cardinality({ j \in 1..Len(promises) :
                                      promises[j].caller = promises[i].caller })

C19_FailureCompensated ==
    (/\ ContinuationRan
     /\ deploy_last.promise.promise_result = "Failed"
     /\ ~deploy_last.promise.touched
     /\ Registered(DeployPre, deploy_last.caller)) =>
        LET before == deploy_last.promise.pre.val IN
        /\ deploy_last.ok
        /\ Registered(deployer, deploy_last.caller)
        /\ EscrowOf(deployer, deploy_last.caller) = before.near_used_for_storage
        /\ AvailableOf(deployer, deploy_last.caller)
               = before.near_amount - before.near_used_for_storage
        /\ InstancesOf(deployer, deploy_last.caller) = before.info.deployed_contracts

\* the compensation of a request made when the list already held an instance
C19_Witness ==
    /\ ContinuationRan /\ deploy_last.ok
    /\ deploy_last.promise.promise_result = "Failed"
    /\ ~deploy_last.promise.touched
    /\ deploy_last.promise.pre.val.info.deployed_contracts # <<>>
    /\ EscrowOf(DeployPre, deploy_last.caller)
           = deploy_last.promise.pre.val.near_used_for_storage + DepositPerInstance
    /\ EscrowOf(deployer, deploy_last.caller)
           = deploy_last.promise.pre.val.near_used_for_storage
    /\ InstancesOf(deployer, deploy_last.caller)
           = deploy_last.promise.pre.val.info.deployed_contracts

\* the success-path continuation of the pending promise i, run on self
SuccessContinuation(self, i, overflow_checks) ==
    resolve_contract_deploy(self, promises[i].caller, promises[i].contract_id,
                            "Successful", overflow_checks)

\* C20: when the chain succeeded the continuation changes no escrow and no
\* instance list: the escrow stays consumed and the instance stays listed;
\* and running the success-path continuation twice leaves the state that
\* running it once leaves.
C20_SuccessContinuationNoOp ==
    /\ (ContinuationRan /\ deploy_last.promise.promise_result = "Successful") =>
          /\ deploy_last.ok
          /\ deployer = DeployPre
          /\ ~deploy_last.promise.touched =>
                /\ EscrowOf(deployer, deploy_last.caller)
                       = deploy_last.promise.pre.val.near_used_for_storage
                         + DepositPerInstance
                /\ InstancesOf(deployer, deploy_last.caller)
                       = Append(deploy_last.promise.pre.val.info.deployed_contracts,
                                deploy_last.promise.contract_id)
    /\ \A i \in 1..Len(promises), overflow_checks \in BOOLEAN :
          promises[i].promise_result = "Successful" =>
              LET once == SuccessContinuation(deployer, i, overflow_checks)
                  twice == SuccessContinuation(once.self, i, overflow_checks)
              IN /\ once.ok /\ twice.ok
                 /\ twice.self = once.self
                 /\ once.self = deployer

\* the continuation of a request whose chain succeeded has run: the
\* instance is listed and its deposit is in escrow
C20_Witness ==
    /\ ContinuationRan /\ deploy_last.ok
    /\ deploy_last.promise.promise_result = "Successful"
    /\ ~deploy_last.promise.touched
    /\ deploy_last.promise.contract_id \in ListProvisionedInstances
    /\ EscrowOf(deployer, deploy_last.caller) >= DepositPerInstance
    /\ deployer = DeployPre

\* the number of occurrences of x in seq
Count(seq, x) == Cardinality({ i \in 1..Len(seq) : seq[i] = x })

\* the number of occurrences of x in the lists of all accounts
CountInAllLists(self, x) ==
    SumOver([i \in 1..Len(self.accounts) |->
                Count(self.accounts[i].info.deployed_contracts, x)],
            1..Len(self.accounts))

ViewCalled == deploy_last.op = "get_all_sets"

\* C21: listProvisionedInstances changes nothing and returns the instance
\* ids of every account's list, each as often as the lists hold it; a
\* request with prefix P produces the id P + "." + the deployer's account
\* id, and after a single successful deployment the view returns exactly
\* that one id.
C21_ListIsReadOnlyView ==
    /\ ViewCalled =>
          /\ deploy_last.ok
          /\ deployer = DeployPre
          /\ Len(promises) = deploy_last.npromises
          /\ \A x \in Range(deploy_last.ret)
                      \cup UNION { Range(deployer.accounts[i].info.deployed_contracts) :
                                      i \in 1..Len(deployer.accounts) } :
                Count(deploy_last.ret, x) = CountInAllLists(deployer, x)
    /\ (RequestCalled /\ deploy_last.ok) =>
          deploy_last.promise.contract_id
              = deploy_last.args.contract_account_prefix \o "." \o "deployer"
    /\ (/\ ContinuationRan
        /\ deploy_last.promise.promise_result = "Successful"
        /\ nrequests = 1 /\ nunregisters = 0) =>
          get_all_sets(deployer) = << deploy_last.promise.contract_id >>

\* the view was called when two accounts each had an instance listed
C21_Witness ==
    /\ ViewCalled
    /\ Len(deployer.accounts) = 2
    /\ \A i \in 1..2 : deployer.accounts[i].info.deployed_contracts # <<>>
    /\ Len(deploy_last.ret) >= 2
    /\ deployer = DeployPre

\* the caller's pending requests: those whose continuation has not run
PendingOf(caller) == { i \in 1..Len(promises) : promises[i].caller = caller }

\* C24 as stated: immediately after every successful requestProvisioning
\* debit, the caller's escrow is depositPerInstance times the number of the
\* caller's instances that are pending, that is, still unconfirmed.
C24_EscrowCountsPending ==
    (RequestCalled /\ deploy_last.ok) =>
        EscrowOf(deployer, deploy_last.caller)
            = DepositPerInstance * Cardinality(PendingOf(deploy_last.caller))

\* C24 amended: immediately after every successful requestProvisioning
\* debit, the caller's escrow is depositPerInstance times the number of
\* entries of the caller's instance list, the pending and the confirmed
\* ones alike; it is depositPerInstance times the number of the pending ones
\* when every entry of the list is a pending request's.
C24_EscrowCountsListed ==
    (RequestCalled /\ deploy_last.ok) =>
        LET caller == deploy_last.caller
            listed == Len(InstancesOf(deployer, caller))
        IN /\ EscrowOf(deployer, caller) = DepositPerInstance * listed
           /\ listed >= 1
           /\ listed = Cardinality(PendingOf(caller)) =>
                  EscrowOf(deployer, caller)
                      = DepositPerInstance * Cardinality(PendingOf(caller))

\* a request was made after an earlier one of the caller had been confirmed:
\* two deposits are in escrow and one request is pending
C24_Witness ==
    /\ RequestCalled /\ deploy_last.ok
    /\ Len(InstancesOf(deployer, deploy_last.caller)) = 2
    /\ Cardinality(PendingOf(deploy_last.caller)) = 1
    /\ EscrowOf(deployer, deploy_last.caller) = 2 * DepositPerInstance

\* C26: the continuation of a request never runs while the outcome of the
\* request's action chain is unresolved: its "still pending" branch is
\* reached in no execution.
C26_ContinuationAfterChain ==
    ContinuationRan =>
        /\ deploy_last.promise.promise_result \in {"Successful", "Failed"}
        /\ deploy_last.args.promise_result # "NotReady"
        /\ deploy_last.err # "internal error: entered unreachable code"

\* the continuation of one request has run while the chain of another
\* request of the same caller was still unresolved
C26_Witness ==
    /\ ContinuationRan
    /\ \E i \in 1..Len(promises) :
          /\ promises[i].caller = deploy_last.caller
          /\ promises[i].promise_result = "NotReady"
          /\ promises[i].id < deploy_last.promise.id

\* the continuation has run on a failed chain
FailureContinuationRan ==
    ContinuationRan /\ deploy_last.promise.promise_result = "Failed"

\* C27: in the failure path, when the caller's record no longer exists as the
\* continuation runs, the compensation is skipped: the continuation returns
\* without failing and changes no escrow and no instance list of any account.
C27_CompensationSkippedWhenClosed ==
    (FailureContinuationRan /\ ~Registered(DeployPre, deploy_last.caller)) =>
        /\ deploy_last.ok
        /\ deployer = DeployPre
        /\ \A account_id \in Callers :
              /\ EscrowOf(deployer, account_id) = EscrowOf(DeployPre, account_id)
              /\ InstancesOf(deployer, account_id) = InstancesOf(DeployPre, account_id)

\* the continuation of a failed chain found the caller's record gone, while
\* another account held an instance and its escrow
C27_Witness ==
    /\ FailureContinuationRan /\ deploy_last.ok
    /\ ~Registered(DeployPre, deploy_last.caller)
    /\ deploy_last.promise.closed
    /\ \E account_id \in Callers \ {deploy_last.caller} :
          /\ InstancesOf(deployer, account_id) # <<>>
          /\ EscrowOf(deployer, account_id) >= DepositPerInstance
    /\ deployer = DeployPre

\* C28: in the failure path, when the caller's record exists and the instance
\* id is not in its list, the continuation returns without failing and the
\* stored record has the escrow refund applied: escrowed is lower by
\* depositPerInstance.
C28_RefundStoredWhenIdMissing ==
    (/\ FailureContinuationRan
     /\ Registered(DeployPre, deploy_last.caller)
     /\ deploy_last.promise.contract_id
            \notin Range(InstancesOf(DeployPre, deploy_last.caller))) =>
        /\ deploy_last.ok
        /\ EscrowOf(deployer, deploy_last.caller)
               = EscrowOf(DeployPre, deploy_last.caller) - DepositPerInstance

\* the position of the first occurrence of x in seq
FirstIndex(seq, x) == Min({ i \in 1..Len(seq) : seq[i] = x })

\* new is old with the entry at idx deleted by swap-delete: one entry less,
\* the last entry in the place of the deleted one, every other entry where
\* it was
SwapDeleted(old, new, idx) ==
    /\ Len(new) = Len(old) - 1
    /\ \A j \in 1..Len(new) : j # idx => new[j] = old[j]
    /\ idx < Len(old) => new[idx] = old[Len(old)]
    /\ \A x \in Range(old) :
          Count(new, x) = Count(old, x) - (IF x = old[idx] THEN 1 ELSE 0)

\* C29: compensation removes exactly one occurrence of the instance id from
\* the caller's list by swap-delete: the list is shorter by one, every other
\* entry is retained, a second occurrence of the same id included, and the
\* last entry takes the place of the removed one.
C29_CompensationSwapDeletes ==
    (/\ FailureContinuationRan
     /\ deploy_last.promise.contract_id
            \in Range(InstancesOf(DeployPre, deploy_last.caller))) =>
        LET old == InstancesOf(DeployPre, deploy_last.caller)
            new == InstancesOf(deployer, deploy_last.caller)
        IN /\ deploy_last.ok
           /\ SwapDeleted(old, new, FirstIndex(old, deploy_last.promise.contract_id))

\* the id removed was the first of a list of three and was listed twice: its
\* second occurrence has moved into the first place, ahead of the entry
\* that came before it
C29_Witness ==
    /\ FailureContinuationRan /\ deploy_last.ok
    /\ LET old == InstancesOf(DeployPre, deploy_last.caller)
           new == InstancesOf(deployer, deploy_last.caller)
           id == deploy_last.promise.contract_id
       IN /\ Len(old) = 3
          /\ old[1] = id /\ old[3] = id /\ old[2] # id
          /\ new = <<id, old[2]>>
          /\ new # <<old[2], id>>

----------------------------------------------------------------------------
(* The claims on the requests of one caller and their history *)

\* request k is pending: its promise has been submitted and its callback
\* has not run
PendingRequest(k) == \E i \in 1..Len(promises) : promises[i].id = k

\* the callback of request k has run no more than once and has refunded no
\* more than once, and the request is pending until it has run
RunsAtMostOnce(k) ==
    /\ requests[k].runs <= 1
    /\ requests[k].refunds <= 1
    /\ (requests[k].runs = 0) <=> PendingRequest(k)
    /\ (requests[k].runs = 0) <=> (requests[k].status = "Pending")
    /\ requests[k].status = "Confirmed" => requests[k].refunds = 0

\* request k is pending, or it ended Confirmed or Compensated
EndsConfirmedOrCompensated(k) ==
    requests[k].status \in {"Pending", "Confirmed", "Compensated"}

\* what the callback that has just run did to its request: Confirmed keeps
\* the entry and the escrow, Compensated removes one entry and refunds the
\* deposit once
LastContinuationEffect ==
    LET k == deploy_last.promise.id
        id == deploy_last.promise.contract_id
        caller == deploy_last.caller
    IN /\ requests[k].status = "Confirmed" =>
              /\ deployer = DeployPre
              /\ id \in Range(InstancesOf(deployer, caller))
              /\ EscrowOf(deployer, caller) >= DepositPerInstance
       /\ requests[k].status = "Compensated" =>
              /\ requests[k].refunds = 1
              /\ Count(InstancesOf(deployer, caller), id)
                     = Count(InstancesOf(DeployPre, caller), id) - 1
              /\ Len(InstancesOf(deployer, caller))
                     = Len(InstancesOf(DeployPre, caller)) - 1
              /\ EscrowOf(deployer, caller)
                     = EscrowOf(DeployPre, caller) - DepositPerInstance

Succeeded(caller) ==
    { k \in 1..Len(requests) :
        requests[k].caller = caller /\ requests[k].status = "Confirmed" }

\* a later request of the caller was made while an earlier one was pending,
\* with another prefix, and every request has been resolved
InterleavedAndResolved(caller) ==
    /\ promises = <<>>
    /\ \E j, k \in 1..Len(requests) :
          /\ j < k
          /\ requests[j].caller = caller /\ requests[k].caller = caller
          /\ requests[k].overlapped
          /\ requests[j].contract_id # requests[k].contract_id

\* the caller's escrow and list account for the requests whose chain
\* succeeded, and for no other
NoLostUpdate(caller) ==
    /\ EscrowOf(deployer, caller) = DepositPerInstance * Cardinality(Succeeded(caller))
    /\ Len(InstancesOf(deployer, caller)) = Cardinality(Succeeded(caller))
    /\ \A x \in Range(InstancesOf(deployer, caller))
                \cup { requests[k].contract_id : k \in Succeeded(caller) } :
          Count(InstancesOf(deployer, caller), x)
              = Cardinality({ k \in Succeeded(caller) : requests[k].contract_id = x })

\* C30 as stated: when a second request of the same caller, with another
\* prefix, is made between a first request and the first request's
\* continuation, then after both are resolved the caller's escrow is
\* depositPerInstance times the number of its requests whose chain
\* succeeded, and its list holds exactly the ids of those requests.
C30_NoLostUpdate ==
    \A caller \in SagaCallers : InterleavedAndResolved(caller) => NoLostUpdate(caller)

\* C30 amended: the same, provided the caller's record was not closed since
\* its first request.
C30_NoLostUpdateUnlessClosed ==
    \A caller \in SagaCallers :
        (InterleavedAndResolved(caller) /\ nunregisters = 0) => NoLostUpdate(caller)

\* of two interleaved requests the first was compensated and the second
\* confirmed: the list holds the second's id alone and one deposit is in
\* escrow
C30_Witness ==
    /\ promises = <<>> /\ nunregisters = 0
    /\ Len(requests) = 2
    /\ requests[2].overlapped
    /\ requests[1].contract_id # requests[2].contract_id
    /\ requests[1].status = "Compensated" /\ requests[2].status = "Confirmed"
    /\ InstancesOf(deployer, requests[2].caller) = << requests[2].contract_id >>
    /\ EscrowOf(deployer, requests[2].caller) = DepositPerInstance

\* request k has been accepted, its chain has settled and its continuation
\* has run: a promise leaves the pending ones only when its callback runs
ContinuationHasRun(k) == nrequests >= k /\ ~PendingRequest(k)

\* C25: under fair scheduling of the action chains and of their
\* continuations, every accepted request eventually has its chain settled
\* and its continuation run: no request stays Pending forever.
C25_EveryRequestResolves ==
    \A k \in 1..MaxRequests : PendingRequest(k) ~> ContinuationHasRun(k)

\* every request the caller could make has been made, and the continuation
\* of the last pending one has just run on its chain's result
C25_Witness ==
    /\ nrequests = MaxRequests
    /\ \A k \in 1..MaxRequests : ContinuationHasRun(k)
    /\ ContinuationRan
    /\ deploy_last.promise.promise_result \in {"Successful", "Failed"}

----------------------------------------------------------------------------
(* Claims on the backing of the derivative token, under LedgerSpec *)

\* the units of component i held in state self: the per-asset balances of
\* every account, and ratio units for each derivative unit in supply
Backing(self, i) ==
    LET ratio == self.set_info.ratios[i]
        held == [a \in DOMAIN self.accounts.accounts |->
                     self.accounts.accounts[a][ratio.token_id]]
    IN SumOver(held, DOMAIN held) + ratio.ratio * self.token.total_supply

BackingOps == {"wrap", "unwrap", "ft_resolve_transfer", "storage_unregister"}

\* the derivative units the last call took out of the supply
Burned == Pre.token.total_supply - token.total_supply

BurnSucceeded == last.op = "ft_resolve_transfer" /\ last.ok /\ Burned > 0
CloseSucceeded ==
    /\ last.op = "storage_unregister" /\ last.ok
    /\ last.caller \in DOMAIN Pre.token.accounts

\* C31: backing conservation: for every component i, the sum over all
\* accounts of the per-asset balance of i plus ratio_i times the derivative
\* total supply is unchanged by every wrap, unwrap, derivative burn and forced
\* account close; a burn credits the components of the burned units to the
\* burning account, a close credits them to the platform beneficiary.
C31_BackingConserved ==
    (last.op \in BackingOps /\ last.exists) =>
        /\ \A i \in 1..Len(PreRatios) : Backing(Self, i) = Backing(Pre, i)
        /\ BurnSucceeded =>
              \A i \in 1..Len(PreRatios) :
                  BalanceOf(Self, last.caller, PreRatios[i].token_id) =
                      BalanceOf(Pre, last.caller, PreRatios[i].token_id)
                      + PreRatios[i].ratio * Burned
        /\ CloseSucceeded =>
              /\ Burned = Pre.token.accounts[last.caller]
              /\ \A i \in 1..Len(PreRatios) :
                    BalanceOf(Self, PreFee.platform_id, PreRatios[i].token_id) =
                        BalanceOf(Pre, PreFee.platform_id, PreRatios[i].token_id)
                        + PreRatios[i].ratio * Burned

\* the sender of a transfer closed its account, the receiver returned the
\* amount, and the units were burned and their components credited to the sender
C31_Witness ==
    /\ BurnSucceeded
    /\ last.caller \notin DOMAIN Pre.token.accounts
    /\ \E i \in 1..Len(PreRatios) :
          BalanceOf(Self, last.caller, PreRatios[i].token_id) >
              BalanceOf(Pre, last.caller, PreRatios[i].token_id)

\* an account holding derivative units was closed by force, and the
\* components of its units were credited to the platform beneficiary
ForcedCloseCredited ==
    /\ CloseSucceeded /\ Burned > 0
    /\ last.args.force = Some(TRUE)
    /\ \E i \in 1..Len(PreRatios) :
          BalanceOf(Self, PreFee.platform_id, PreRatios[i].token_id) >
              BalanceOf(Pre, PreFee.platform_id, PreRatios[i].token_id)

----------------------------------------------------------------------------
(* Claims on baskets with a component of ratio 0, under LedgerSpec *)

HasZeroRatio(ratios) == \E i \in 1..Len(ratios) : ratios[i].ratio = 0

DivisionByZero == "attempt to divide by zero"

\* the last call constructed the contract from a non-empty basket of unique
\* ids and from fees within the denominator
ValidConstruction ==
    /\ last.op = "new" /\ ~last.exists
    /\ Len(last.args.set_ratios) > 0
    /\ \A i, j \in 1..Len(last.args.set_ratios) :
          last.args.set_ratios[i].token_id = last.args.set_ratios[j].token_id => i = j
    /\ last.args.fee.owner_fee + last.args.fee.platform_fee <= FEE_DENOMINATOR

\* C35: basket construction accepts a component with ratio 0, and on a
\* basket containing a zero-ratio component every wrap call, with or without
\* a requested amount, fails on the division balance / ratio and leaves all
\* balances unchanged.
C35_ZeroRatioAcceptedAndWrapFails ==
    /\ (ValidConstruction /\ HasZeroRatio(last.args.set_ratios)) =>
           /\ last.ok
           /\ state_exists
           /\ set_info.ratios = last.args.set_ratios
    /\ (last.op = "wrap" /\ last.exists /\ HasZeroRatio(PreRatios)) =>
           /\ ~last.ok
           /\ last.err = DivisionByZero
           /\ StateUnchanged

\* a caller holding every component of a basket with a zero ratio asked to
\* wrap 3 units, and the call failed on the division
C35_Witness ==
    /\ last.op = "wrap" /\ last.exists /\ HasZeroRatio(PreRatios)
    /\ last.args.amount = Some(3)
    /\ \A i \in 1..Len(PreRatios) :
          BalanceOf(Pre, last.caller, PreRatios[i].token_id) >= 3
    /\ last.err = DivisionByZero
    /\ StateUnchanged

\* the same caller asked to wrap the maximum
ZeroRatioWrapMaxFails ==
    /\ last.op = "wrap" /\ last.exists /\ HasZeroRatio(PreRatios)
    /\ last.args.amount = None
    /\ \A i \in 1..Len(PreRatios) :
          BalanceOf(Pre, last.caller, PreRatios[i].token_id) > 0
    /\ last.err = DivisionByZero

----------------------------------------------------------------------------
(* The frame of wrap and unwrap, under Spec *)

\* the maps have the same keys, and the same values outside the keys in S
ChangedOnlyAt(pre_map, post_map, S) ==
    /\ DOMAIN post_map = DOMAIN pre_map
    /\ \A a \in (DOMAIN pre_map) \ S : post_map[a] = pre_map[a]

\* the basket, the fee policy, the owner and the storage minimum are the
\* ones before the call
DefinitionUnchanged ==
    /\ set_info = Pre.set_info
    /\ owner_id = Pre.owner_id
    /\ accounts.default_min_storage_bal = Pre.accounts.default_min_storage_bal

\* C36: frame of wrap and unwrap: a wrap changes per-asset balances of the
\* caller only and derivative balances of the caller, the basket owner and
\* the platform beneficiary only; an unwrap changes balances of the caller
\* only; neither changes the basket components or the fee policy.
C36_WrapUnwrapFrame ==
    /\ (last.op = "wrap" /\ last.exists) =>
           /\ ChangedOnlyAt(Pre.accounts.accounts, accounts.accounts, {last.caller})
           /\ ChangedOnlyAt(Pre.token.accounts, token.accounts,
                            {last.caller, Pre.owner_id, PreFee.platform_id})
           /\ DefinitionUnchanged
    /\ (last.op = "unwrap" /\ last.exists) =>
           /\ ChangedOnlyAt(Pre.accounts.accounts, accounts.accounts, {last.caller})
           /\ ChangedOnlyAt(Pre.token.accounts, token.accounts, {last.caller})
           /\ DefinitionUnchanged

\* alice wrapped and then unwrapped her share: the wrap credited the three
\* parties, and the unwrap left the owner's and the platform's fee units and
\* the owner's per-asset balances as they were
C36_Witness ==
    /\ UnwrapSucceeded /\ TripDone
    /\ last.caller = "alice"
    /\ round_trip.share > 0 /\ round_trip.owner_inrcr > 0 /\ round_trip.platform_incr > 0
    /\ Pre.owner_id # PreFee.platform_id
    /\ token.accounts[Pre.owner_id] = round_trip.owner_inrcr
    /\ token.accounts[PreFee.platform_id] = round_trip.platform_incr
    /\ Pre.owner_id \in DOMAIN accounts.accounts
    /\ accounts.accounts["alice"] # Pre.accounts.accounts["alice"]

----------------------------------------------------------------------------
(* Claims on the escrow and on the instance ids, under DeploySpec *)

RegisteredAccounts == { deployer.accounts[i].account_id : i \in 1..Len(deployer.accounts) }

\* C32: for every account whose record is never closed, in every reachable
\* state, while requests are pending and after any mix of confirmations and
\* compensations, the escrow attributable to deployments is depositPerInstance
\* times the number of entries in the account's instance list.  It is stated
\* for every record there is, a record opened again after a close included.
C32_EscrowMatchesList ==
    \A a \in RegisteredAccounts :
        EscrowOf(deployer, a) = DepositPerInstance * Len(InstancesOf(deployer, a))

\* no account was closed; a request of the caller was compensated while
\* another one of its requests is listed and pending
C32_Witness ==
    /\ nunregisters = 0
    /\ FailureContinuationRan /\ deploy_last.ok
    /\ EscrowOf(DeployPre, deploy_last.caller) = 2 * DepositPerInstance
    /\ EscrowOf(deployer, deploy_last.caller) = DepositPerInstance
    /\ Len(InstancesOf(deployer, deploy_last.caller)) = 1
    /\ Cardinality(PendingOf(deploy_last.caller)) = 1

\* the id a request with this prefix records, whoever makes it
InstanceIdOf(prefix) == prefix \o ".deployer"

\* C33: the instance id recorded by requestProvisioning is prefix + "." + the
\* deployer's own account id and does not depend on the caller: two requests
\* with the same prefix, from the same or from different callers, record the
\* same instance id, and both are accepted and listed while pending.  A
\* request is accepted on its caller's record and available NEAR alone, and
\* appends its id to its caller's list whatever the lists already hold.
C33_InstanceIdFromPrefixAlone ==
    LET caller == deploy_last.caller
        id == InstanceIdOf(deploy_last.args.contract_account_prefix)
    IN /\ (RequestCalled /\ deploy_last.ok) =>
              /\ deploy_last.promise.contract_id = id
              /\ InstancesOf(deployer, caller) = Append(InstancesOf(DeployPre, caller), id)
              /\ \A a \in Callers \ {caller} :
                    InstancesOf(deployer, a) = InstancesOf(DeployPre, a)
              /\ CountInAllLists(deployer, id) = CountInAllLists(DeployPre, id) + 1
       /\ (RequestCalled /\ deploy_last.args.deposit = 1
              /\ Registered(DeployPre, caller)
              /\ AvailableOf(DeployPre, caller) >= DepositPerInstance) =>
              deploy_last.ok

\* a request was accepted while a request of another caller with the same
\* prefix was pending: the two recorded the same id, and it is listed twice
C33_Witness ==
    /\ RequestCalled /\ deploy_last.ok
    /\ \E j \in 1..Len(promises) :
          /\ promises[j].caller # deploy_last.caller
          /\ promises[j].contract_id = deploy_last.promise.contract_id
          /\ promises[j].contract_id
                 \in Range(InstancesOf(deployer, promises[j].caller))
    /\ deploy_last.promise.contract_id
           \in Range(InstancesOf(deployer, deploy_last.caller))
    /\ Count(get_all_sets(deployer), deploy_last.promise.contract_id) = 2
    /\ Len(promises) = 2

\* the same, the two requests being of one caller
SamePrefixSameCaller ==
    /\ RequestCalled /\ deploy_last.ok
    /\ Cardinality({ j \in PendingOf(deploy_last.caller) :
                        promises[j].contract_id = deploy_last.promise.contract_id }) = 2
    /\ Count(InstancesOf(deployer, deploy_last.caller),
             deploy_last.promise.contract_id) = 2

\* C34: compensation never drives the escrow below zero: in every execution,
\* the ones where the caller's record is closed and registered again while a
\* request is in flight included, the subtraction escrowed - depositPerInstance
\* of the failure continuation does not underflow: whenever the continuation
\* of a failed chain finds the caller's record, the record's escrow is at
\* least depositPerInstance.
C34_CompensationNeverUnderflows ==
    (FailureContinuationRan /\ Registered(DeployPre, deploy_last.caller)) =>
        EscrowOf(DeployPre, deploy_last.caller) >= DepositPerInstance

====
